---------------------------- MODULE Spec2Model ----------------------------
(***************************************************************************)
(* Advent of Code 2025, day 12 part 1 (src/src/day12/part1/index.ts):      *)
(* the shape-packing feasibility solver.                                   *)
(*                                                                         *)
(* A Shape is a sequence of rows, each a sequence of BOOLEAN.  TLA+        *)
(* sequences are 1-based; anchors (row, col) keep the 0-based values of    *)
(* the source, so the source's shape[i][j] is shape[i + 1][j + 1] here.    *)
(*                                                                         *)
(* The rows of a grid are JavaScript arrays, i.e. heap objects: a grid's   *)
(* cells field is a sequence of row references and `heap` maps each        *)
(* reference to the row's content, so that copying and aliasing of rows    *)
(* is visible in the model.                                                *)
(***************************************************************************)
EXTENDS Integers, Sequences, FiniteSets, TLC

VARIABLES
    presents,   \* the Present list handed to the evaluator
    region,     \* the TreeRegion under evaluation
    pc,         \* position of the driver
    result,     \* the boolean returned (meaningful once pc = "done")
    stack,      \* activations of generateAllValidWaysToFitPresentsInGrid
    heap,       \* row reference -> row content
    call,       \* arguments of the pure function under test
    ret         \* its return value

vars == <<presents, region, pc, result, stack, heap, call, ret>>

---------------------------------------------------------------------------
(* Bounds of the model. *)

MaxShapeDim == 3
MaxFitDim == 2
MaxRegionWidth == 3
MaxRegionHeight == 2
MaxCount == 2
MaxPresentTypes == 2
\* The search run without the evaluator's pre-checks is exponential in the number
\* of instances: its inputs have bounds of their own.
MaxSearchWidth == 2
MaxSearchHeight == 2
MaxSearchPresentTypes == 1
\* Bounds of the harness for the one-present enumerator.
MaxEnumWidth == 5
MaxEnumHeight == 5

---------------------------------------------------------------------------
(* Generic helpers. *)

NoCall == [fn |-> "none"]

Max(a, b) == IF a > b THEN a ELSE b

\* Number of TRUE cells of a boolean matrix: shape.flat().filter(c => c).length
FilledCount(shape) ==
    Cardinality({rc \in (1..Len(shape)) \X (1..Len(shape[1])) :
                    shape[rc[1]][rc[2]]})

\* All rectangular boolean matrices with h rows and w columns.
Matrices(h, w) == [1..h -> [1..w -> BOOLEAN]]

---------------------------------------------------------------------------
(* Shape canonicalizer. *)

\* Array.prototype.join('') of a boolean row: "true" / "false" concatenated.
RECURSIVE JoinRow(_)
JoinRow(r) ==
    IF Len(r) = 0 THEN ""
    ELSE (IF Head(r) THEN "true" ELSE "false") \o JoinRow(Tail(r))

rotateShape90DegreesClockwise(originalShape) ==
    LET h == Len(originalShape)
        w == Len(originalShape[1])
    IN  [c \in 1..w |-> [k \in 1..h |-> originalShape[h - k + 1][c]]]

flipShapeVertically(originalShape) ==
    LET h == Len(originalShape)
    IN  [i \in 1..h |-> originalShape[h + 1 - i]]

areShapesIdentical(shape1, shape2) ==
    IF Len(shape1) # Len(shape2) THEN FALSE
    ELSE \A i \in 1..Len(shape1) : JoinRow(shape1[i]) = JoinRow(shape2[i])

\* if (shapes.every(existing => !areShapesIdentical(existing, s))) shapes.push(s)
PushIfNew(shapes, s) ==
    IF \A k \in 1..Len(shapes) : ~areShapesIdentical(shapes[k], s)
    THEN Append(shapes, s)
    ELSE shapes

\* One iteration of the for-of over shapesToRotate: the shape, then its 3 rotations.
RotationSweep(shapes, shape) ==
    LET r1 == rotateShape90DegreesClockwise(shape)
        r2 == rotateShape90DegreesClockwise(r1)
        r3 == rotateShape90DegreesClockwise(r2)
    IN  PushIfNew(PushIfNew(PushIfNew(PushIfNew(shapes, shape), r1), r2), r3)

\* Mutant: pushes every candidate without the dedup test.
computeShapeVariationsNoDedup(originalShape) ==
    LET f == flipShapeVertically(originalShape)
        r1 == rotateShape90DegreesClockwise(originalShape)
        r2 == rotateShape90DegreesClockwise(r1)
        r3 == rotateShape90DegreesClockwise(r2)
        g1 == rotateShape90DegreesClockwise(f)
        g2 == rotateShape90DegreesClockwise(g1)
        g3 == rotateShape90DegreesClockwise(g2)
    IN  <<originalShape, r1, r2, r3, f, g1, g2, g3>>

\* Mutant: the vertically flipped shape is never rotated.
computeShapeVariationsWithoutFlip(originalShape) ==
    RotationSweep(<<>>, originalShape)

computeShapeVariations(originalShape) ==
    LET verticallyFlippedShape == flipShapeVertically(originalShape)
        afterOriginal == RotationSweep(<<>>, originalShape)
    IN  IF ~areShapesIdentical(originalShape, verticallyFlippedShape)
        THEN RotationSweep(afterOriginal, verticallyFlippedShape)
        ELSE afterOriginal

---------------------------------------------------------------------------
(* Packing grid.  Every function that allocates or writes rows takes the   *)
(* heap h and returns [heap |-> the heap afterwards, grid |-> its result]. *)

\* n references that h does not use yet, smallest first.
RECURSIVE SmallestFirst(_, _)
SmallestFirst(pool, n) ==
    IF n = 0 THEN <<>>
    ELSE LET least == CHOOSE x \in pool : \A y \in pool : x <= y
         IN  <<least>> \o SmallestFirst(pool \ {least}, n - 1)

FreshRefs(h, n) ==
    SmallestFirst((1..(Cardinality(DOMAIN h) + n)) \ DOMAIN h, n)

\* The occupancy matrix a grid denotes in heap h.
CellsOf(h, grid) ==
    [r \in 1..Len(grid.cells) |-> h[grid.cells[r]]]

buildEmptyRegionGrid(h, rows, columns) ==
    LET refs == FreshRefs(h, rows)
    IN  [heap |-> h @@ [x \in {refs[k] : k \in 1..rows} |-> [c \in 1..columns |-> FALSE]],
         grid |-> [width |-> columns,
                   height |-> rows,
                   widestRowWidth |-> 0,
                   highestColumnHeight |-> 0,
                   cells |-> refs]]

\* Mutant: the cells are assigned (=), not or-assigned (||=).
RECURSIVE WriteShapeRowsAssigning(_, _, _, _, _, _)
WriteShapeRowsAssigning(h, cells, shape, row, col, i) ==
    IF i >= Len(shape) THEN h
    ELSE LET ref == cells[row + i + 1]
             old == h[ref]
             new == [c \in 1..Len(old) |->
                        IF c - 1 >= col /\ c - 1 < col + Len(shape[i + 1])
                        THEN shape[i + 1][c - col]
                        ELSE old[c]]
         IN  WriteShapeRowsAssigning([h EXCEPT ![ref] = new], cells, shape, row, col, i + 1)

\* The two nested for loops of placeShapeOnGridAtCoordinates, from shape row i on:
\* newGrid.cells[row + i][col + j] ||= shape[i][j]
RECURSIVE WriteShapeRows(_, _, _, _, _, _)
WriteShapeRows(h, cells, shape, row, col, i) ==
    IF i >= Len(shape) THEN h
    ELSE LET ref == cells[row + i + 1]
             old == h[ref]
             new == [c \in 1..Len(old) |->
                        IF c - 1 >= col /\ c - 1 < col + Len(shape[i + 1])
                        THEN old[c] \/ shape[i + 1][c - col]
                        ELSE old[c]]
         IN  WriteShapeRows([h EXCEPT ![ref] = new], cells, shape, row, col, i + 1)

\* Mutant: the new grid shares the row arrays of the input (cells: [...grid.cells]).
placeShapeShallowCopy(h, grid, shape, row, col) ==
    [heap |-> WriteShapeRows(h, grid.cells, shape, row, col, 0),
     grid |-> [width |-> grid.width,
               height |-> grid.height,
               widestRowWidth |-> Max(grid.widestRowWidth, col + Len(shape[1])),
               highestColumnHeight |-> Max(grid.highestColumnHeight, row + Len(shape)),
               cells |-> grid.cells]]

\* Mutant: the envelope takes the shape's height for its width and the reverse.
placeShapeSwappedExtent(h, grid, shape, row, col) ==
    LET refs == FreshRefs(h, Len(grid.cells))
        copied == h @@ [x \in {refs[k] : k \in 1..Len(refs)} |->
                          h[grid.cells[CHOOSE k \in 1..Len(refs) : refs[k] = x]]]
    IN  [heap |-> WriteShapeRows(copied, refs, shape, row, col, 0),
         grid |-> [width |-> grid.width,
                   height |-> grid.height,
                   widestRowWidth |-> Max(grid.widestRowWidth, col + Len(shape)),
                   highestColumnHeight |-> Max(grid.highestColumnHeight, row + Len(shape[1])),
                   cells |-> refs]]

\* Mutant: the envelope is set to the placed shape's extent, without Math.max.
placeShapeNoMax(h, grid, shape, row, col) ==
    LET refs == FreshRefs(h, Len(grid.cells))
        copied == h @@ [x \in {refs[k] : k \in 1..Len(refs)} |->
                          h[grid.cells[CHOOSE k \in 1..Len(refs) : refs[k] = x]]]
    IN  [heap |-> WriteShapeRows(copied, refs, shape, row, col, 0),
         grid |-> [width |-> grid.width,
                   height |-> grid.height,
                   widestRowWidth |-> col + Len(shape[1]),
                   highestColumnHeight |-> row + Len(shape),
                   cells |-> refs]]

placeShapeOnGridAtCoordinates(h, grid, shape, row, col) ==
    LET refs == FreshRefs(h, Len(grid.cells))
        \* Array.from(grid.cells, (gridRow) => [...gridRow]): a fresh copy of every row
        copied == h @@ [x \in {refs[k] : k \in 1..Len(refs)} |->
                          h[grid.cells[CHOOSE k \in 1..Len(refs) : refs[k] = x]]]
    IN  [heap |-> WriteShapeRows(copied, refs, shape, row, col, 0),
         grid |-> [width |-> grid.width,
                   height |-> grid.height,
                   widestRowWidth |-> Max(grid.widestRowWidth, col + Len(shape[1])),
                   highestColumnHeight |-> Max(grid.highestColumnHeight, row + Len(shape)),
                   cells |-> refs]]

\* The matrix positions the two nested loops over a shape anchored at
\* (row, col) index: cells[row + i][col + j] for every i, j of the shape.
IndexedByShapeLoops(shape, row, col) ==
    {<<row + i, col + j>> : i \in 0..(Len(shape) - 1), j \in 0..(Len(shape[1]) - 1)}

\* Mutant: the loops run without the bounds test before them.
CellsReadByCanShapeFitUnguarded(grid, shape, row, col) ==
    IndexedByShapeLoops(shape, row, col)

\* The positions canShapeFitOnGridAtCoordinates may read in grid.cells: none
\* when the bounds test returns false, otherwise those its loops index (the
\* loops stop at the first overlap they find).
CellsReadByCanShapeFit(grid, shape, row, col) ==
    IF row + Len(shape) > grid.height \/ col + Len(shape[1]) > grid.width THEN {}
    ELSE IndexedByShapeLoops(shape, row, col)

\* The positions placeShapeOnGridAtCoordinates writes in newGrid.cells.
CellsWrittenByPlaceShape(shape, row, col) ==
    IndexedByShapeLoops(shape, row, col)

\* Mutant: the bounds test is off by one (>= for >).
canShapeFitOffByOne(h, grid, shape, row, col) ==
    IF row + Len(shape) >= grid.height \/ col + Len(shape[1]) >= grid.width THEN FALSE
    ELSE \A i \in 0..(Len(shape) - 1) : \A j \in 0..(Len(shape[i + 1]) - 1) :
            ~(h[grid.cells[row + i + 1]][col + j + 1] /\ shape[i + 1][j + 1])

\* Mutant: no overlap test, only the bounds test.
canShapeFitBoundsOnly(h, grid, shape, row, col) ==
    ~(row + Len(shape) > grid.height \/ col + Len(shape[1]) > grid.width)

canShapeFitOnGridAtCoordinates(h, grid, shape, row, col) ==
    IF row + Len(shape) > grid.height \/ col + Len(shape[1]) > grid.width THEN FALSE
    ELSE \A i \in 0..(Len(shape) - 1) : \A j \in 0..(Len(shape[i + 1]) - 1) :
            ~(h[grid.cells[row + i + 1]][col + j + 1] /\ shape[i + 1][j + 1])

---------------------------------------------------------------------------
(* The shapes the harnesses and the evaluator's inputs are drawn from.     *)

Monomino == <<<<TRUE>>>>

DominoH == <<<<TRUE, TRUE>>>>

LTromino == <<<<TRUE, TRUE>>, <<TRUE, FALSE>>>>

Square2 == <<<<TRUE, TRUE>>, <<TRUE, TRUE>>>>

\* A shape whose matrix is wider than its filled cells (an empty last column).
PaddedMonomino == <<<<TRUE, FALSE>>>>
\* One filled cell in a matrix 4 wide and 2 high.
WidePaddedMonomino ==
    <<<<TRUE, FALSE, FALSE, FALSE>>, <<FALSE, FALSE, FALSE, FALSE>>>>
\* Two filled cells, one above the other: taller than wide.
DominoV == <<<<TRUE>>, <<TRUE>>>>

ShapeLibrary == {Monomino, DominoH, LTromino, Square2, PaddedMonomino}

---------------------------------------------------------------------------
(* Placement enumerator. *)

\* parseInput's construction of a Present from its parsed shape.
MakePresent(shape) ==
    [width |-> Len(shape[1]),
     height |-> Len(shape),
     coveredArea |-> FilledCount(shape),
     shapeVariations |-> computeShapeVariations(shape)]

\* Number of (row, col, variant) triples that
\* generateAllValidWaysToFitPresentInGridForCoordinateRanges goes through.
RangeSize(range, nVariants) ==
    Max(range.rowEnd - range.rowStart, 0) * Max(range.colEnd - range.colStart, 0)
        * nVariants

\* Mutant: the anchors are gone through column by column.
RangeCandidateColumnMajor(range, nVariants, k) ==
    LET nr == range.rowEnd - range.rowStart
    IN  [row |-> range.rowStart + (((k - 1) \div nVariants) % nr),
         col |-> range.colStart + ((k - 1) \div (nr * nVariants)),
         v |-> ((k - 1) % nVariants) + 1]

\* The k-th of them in the order in which they are tried: row outer, column
\* inner, and at each anchor the variants in list order
\* (generateAllValidWaysToFitPresentInGridAtCoordinates).
RangeCandidate(range, nVariants, k) ==
    LET nc == range.colEnd - range.colStart
    IN  [row |-> range.rowStart + ((k - 1) \div (nc * nVariants)),
         col |-> range.colStart + (((k - 1) \div nVariants) % nc),
         v |-> ((k - 1) % nVariants) + 1]

\* Whether the k-th candidate of a range is yielded: its variant fits at its anchor.
CandidateFits(h, grid, present, range, k) ==
    LET cand == RangeCandidate(range, Len(present.shapeVariations), k)
    IN  canShapeFitOnGridAtCoordinates(h, grid, present.shapeVariations[cand.v],
                                       cand.row, cand.col)

\* Position of the first candidate of a range, from position k on, that fits on
\* the grid; 0 when the rest of the range yields nothing.
NextFitting(h, grid, present, range, k) ==
    LET last == RangeSize(range, Len(present.shapeVariations))
    IN  IF \E j \in k..last : CandidateFits(h, grid, present, range, j)
        THEN CHOOSE j \in k..last :
                /\ CandidateFits(h, grid, present, range, j)
                /\ \A i \in k..(j - 1) : ~CandidateFits(h, grid, present, range, i)
        ELSE 0

\* Everything generateAllValidWaysToFitPresentInGridForCoordinateRanges yields
\* when it is drained (Array.from), candidates k.. onwards: one successor grid
\* per candidate that fits, each placed on a copy of `grid`.
RECURSIVE DrainRange(_, _, _, _, _, _)
DrainRange(h, grid, present, range, k, items) ==
    LET j == NextFitting(h, grid, present, range, k)
    IN  IF j = 0 THEN [heap |-> h, items |-> items]
        ELSE LET cand == RangeCandidate(range, Len(present.shapeVariations), j)
                 placed == placeShapeOnGridAtCoordinates(
                               h, grid, present.shapeVariations[cand.v], cand.row, cand.col)
             IN  DrainRange(placed.heap, grid, present, range, j + 1,
                            Append(items, [grid |-> placed.grid, at |-> cand]))

\* The comparator handed to Array.prototype.sort in the first pass.
CompareByExtent(a, b) ==
    IF a.grid.widestRowWidth < b.grid.widestRowWidth
       /\ a.grid.highestColumnHeight < b.grid.highestColumnHeight
    THEN -1 ELSE 1

\* Array.prototype.sort as V8 (Node.js) runs it on an array shorter than 64:
\* the leading run is found (and reversed when strictly descending), then the
\* remaining elements are inserted by binary insertion.
RECURSIVE RunEnd(_, _, _)
RunEnd(arr, idx, descending) ==
    IF idx > Len(arr) THEN Len(arr)
    ELSE LET order == CompareByExtent(arr[idx], arr[idx - 1])
         IN  IF (descending /\ order >= 0) \/ (~descending /\ order < 0)
             THEN idx - 1
             ELSE RunEnd(arr, idx + 1, descending)

RECURSIVE InsertionPoint(_, _, _, _)
InsertionPoint(arr, pivot, left, right) ==
    IF left >= right THEN left
    ELSE LET mid == left + ((right - left) \div 2)
         IN  IF CompareByExtent(pivot, arr[mid + 1]) < 0
             THEN InsertionPoint(arr, pivot, left, mid)
             ELSE InsertionPoint(arr, pivot, mid + 1, right)

RECURSIVE BinaryInsertionSort(_, _)
BinaryInsertionSort(arr, start) ==
    IF start >= Len(arr) THEN arr
    ELSE LET pivot == arr[start + 1]
             left == InsertionPoint(arr, pivot, 0, start)
             moved == [p \in 1..Len(arr) |->
                          IF p - 1 < left \/ p - 1 > start THEN arr[p]
                          ELSE IF p - 1 = left THEN pivot
                          ELSE arr[p - 1]]
         IN  BinaryInsertionSort(moved, start + 1)

SortByExtent(arr) ==
    IF Len(arr) < 2 THEN arr
    ELSE LET descending == CompareByExtent(arr[2], arr[1]) < 0
             run == RunEnd(arr, 3, descending)
             made == IF descending
                     THEN [p \in 1..Len(arr) |-> IF p <= run THEN arr[run + 1 - p] ELSE arr[p]]
                     ELSE arr
         IN  BinaryInsertionSort(made, run)

\* Coordinate ranges of the three passes of generateAllValidWaysToFitOnePresentInGrid.
Pass1Range(grid, present) ==
    [rowStart |-> 0, rowEnd |-> grid.highestColumnHeight,
     colStart |-> 0, colEnd |-> grid.widestRowWidth]

\* Mutant: the second pass starts at column 0 and runs over the envelope again.
Pass2RangeFromZero(grid, present) ==
    [rowStart |-> 0, rowEnd |-> grid.highestColumnHeight,
     colStart |-> 0, colEnd |-> grid.width - present.width + 1]

Pass2Range(grid, present) ==
    [rowStart |-> 0, rowEnd |-> grid.highestColumnHeight,
     colStart |-> grid.widestRowWidth, colEnd |-> grid.width - present.width + 1]

\* Mutant: the column range stops one short (grid.width - present.width).
Pass3RangeShort(grid, present) ==
    [rowStart |-> grid.highestColumnHeight, rowEnd |-> grid.height + present.height + 1,
     colStart |-> 0, colEnd |-> grid.width - present.width]

Pass3Range(grid, present) ==
    [rowStart |-> grid.highestColumnHeight, rowEnd |-> grid.height + present.height + 1,
     colStart |-> 0, colEnd |-> grid.width - present.width + 1]

---------------------------------------------------------------------------
(* Packing search: the stack holds one frame per live activation of        *)
(* generateAllValidWaysToFitPresentsInGrid, the innermost last.            *)

\* Mutant: the last present type that still has a count above zero.
FindLastPresentIndex(presentsToFit) ==
    IF \E i \in 1..Len(presentsToFit) : presentsToFit[i] > 0
    THEN CHOOSE i \in 1..Len(presentsToFit) :
            /\ presentsToFit[i] > 0
            /\ \A j \in (i + 1)..Len(presentsToFit) : presentsToFit[j] <= 0
    ELSE 0

\* presentsToFit.findIndex((presentCount) => presentCount > 0), 1-based; 0 for -1.
FindNextPresentIndex(presentsToFit) ==
    IF \E i \in 1..Len(presentsToFit) : presentsToFit[i] > 0
    THEN CHOOSE i \in 1..Len(presentsToFit) :
            /\ presentsToFit[i] > 0
            /\ \A j \in 1..(i - 1) : presentsToFit[j] <= 0
    ELSE 0

NoPlacement == [row |-> 0, col |-> 0, v |-> 0]

\* Stands for the value of an IteratorResult that carries none.
NoItem ==
    [grid |-> [width |-> 0, height |-> 0, widestRowWidth |-> 0,
               highestColumnHeight |-> 0, cells |-> <<>>],
     at |-> NoPlacement]

\* Mutant: the count of the present taken is not lowered.
NewFrameNoDecrement(grid, presentsToFit, at) ==
    [grid |-> grid,
     presentsToFit |-> presentsToFit,
     nextPresentToFitIndex |-> FindNextPresentIndex(presentsToFit),
     remainingPresentsToFit |-> presentsToFit,
     pos |-> "entry",
     queue |-> <<>>,
     k |-> 1,
     pending |-> "none",
     item |-> NoItem,
     yielded |-> <<>>,
     constructed |-> 0,
     at |-> at]

\* A fresh activation on `grid`; `at` records the placement that made the grid.
\* pos, queue and k are the position of the activation's one-present enumerator;
\* pending and item are the IteratorResult of its last next(), until the for-of
\* of the activation has acted on it.  yielded is history: what the enumerator
\* has yielded so far (pass, placement, envelope of the grid yielded), in order;
\* constructed counts the successor grids the enumerator has made so far.
NewFrame(grid, presentsToFit, at) ==
    LET idx == FindNextPresentIndex(presentsToFit)
    IN  [grid |-> grid,
         presentsToFit |-> presentsToFit,
         nextPresentToFitIndex |-> idx,
         remainingPresentsToFit |->
             IF idx = 0 THEN presentsToFit
             ELSE [presentsToFit EXCEPT ![idx] = @ - 1],
         pos |-> "entry",
         queue |-> <<>>,
         k |-> 1,
         pending |-> "none",
         item |-> NoItem,
         yielded |-> <<>>,
         constructed |-> 0,
         at |-> at]

Top == stack[Len(stack)]

\* Row references still reachable from a live activation.
Reachable(stk) ==
    UNION {{stk[i].grid.cells[r] : r \in 1..Len(stk[i].grid.cells)} : i \in 1..Len(stk)}
    \cup UNION {{stk[i].item.grid.cells[r] : r \in 1..Len(stk[i].item.grid.cells)} :
                    i \in 1..Len(stk)}
    \cup UNION {UNION {{stk[i].queue[q].grid.cells[r] :
                            r \in 1..Len(stk[i].queue[q].grid.cells)} :
                       q \in 1..Len(stk[i].queue)} : i \in 1..Len(stk)}

\* The heap after garbage collection.
Collect(h, stk) ==
    [x \in (DOMAIN h) \cap Reachable(stk) |-> h[x]]

ReplaceTop(frame) == [stack EXCEPT ![Len(stack)] = frame]

\* Mutant: the consumer asks for a second element, the activation that yielded
\* returns and the search goes on.
YieldWitnessAndResume ==
    /\ pc = "search"
    /\ stack # <<>>
    /\ Top.pos = "entry"
    /\ Top.nextPresentToFitIndex = 0
    /\ stack' = ReplaceTop([Top EXCEPT !.pos = "yielded", !.pending = "done"])
    /\ result' = TRUE
    /\ UNCHANGED <<presents, region, pc, heap, call, ret>>

\* Base case: no more presents to fit, the grid is yielded and the consumer,
\* which pulls one element only, has its answer.
YieldWitness ==
    /\ pc = "search"
    /\ stack # <<>>
    /\ Top.pos = "entry"
    /\ Top.nextPresentToFitIndex = 0
    /\ stack' = ReplaceTop([Top EXCEPT !.pos = "yielded"])
    /\ pc' = "done"
    /\ result' = TRUE
    /\ UNCHANGED <<presents, region, heap, call, ret>>

\* The coordinate range of the second or of the third pass of an activation.
PassRange(frame, pass) ==
    IF pass = "pass2"
    THEN Pass2Range(frame.grid, presents[frame.nextPresentToFitIndex])
    ELSE Pass3Range(frame.grid, presents[frame.nextPresentToFitIndex])

\* Mutant: the pass also makes the grid of the candidate after the one it yields.
LazyYieldOneAhead(h, frame, pass, j) ==
    LET variants == presents[frame.nextPresentToFitIndex].shapeVariations
        cand == RangeCandidate(PassRange(frame, pass), Len(variants), j)
        placed == placeShapeOnGridAtCoordinates(h, frame.grid, variants[cand.v],
                                                cand.row, cand.col)
    IN  [done |-> FALSE,
         heap |-> placed.heap,
         item |-> [grid |-> placed.grid, at |-> cand],
         frame |-> [frame EXCEPT !.pos = pass, !.queue = <<>>, !.k = j + 1,
                                 !.constructed = @ + 2]]

\* The successor grid made by candidate j of a lazy pass, and the enumerator's
\* position after yielding it.
LazyYield(h, frame, pass, j) ==
    LET variants == presents[frame.nextPresentToFitIndex].shapeVariations
        cand == RangeCandidate(PassRange(frame, pass), Len(variants), j)
        placed == placeShapeOnGridAtCoordinates(h, frame.grid, variants[cand.v],
                                                cand.row, cand.col)
    IN  [done |-> FALSE,
         heap |-> placed.heap,
         item |-> [grid |-> placed.grid, at |-> cand],
         frame |-> [frame EXCEPT !.pos = pass, !.queue = <<>>, !.k = j + 1,
                                 !.constructed = @ + 1]]

\* One next() on an activation's generateAllValidWaysToFitOnePresentInGrid: it
\* runs from where it stood to its next yield, or to its end.  On the first
\* pull the first pass is drained into an array and sorted; the array is then
\* handed out one grid per pull; the second and the third pass are scanned
\* candidate by candidate up to the next one that fits.
Pull(h, frame) ==
    LET present == presents[frame.nextPresentToFitIndex]
        drained == IF frame.pos = "entry"
                   THEN DrainRange(h, frame.grid, present,
                                   Pass1Range(frame.grid, present), 1, <<>>)
                   ELSE [heap |-> h, items |-> <<>>]
        queue == IF frame.pos = "entry" THEN SortByExtent(drained.items)
                 ELSE IF frame.pos = "pass1" THEN frame.queue
                 ELSE <<>>
        j2 == IF frame.pos = "pass3" THEN 0
              ELSE NextFitting(h, frame.grid, present, PassRange(frame, "pass2"),
                               IF frame.pos = "pass2" THEN frame.k ELSE 1)
        j3 == NextFitting(h, frame.grid, present, PassRange(frame, "pass3"),
                          IF frame.pos = "pass3" THEN frame.k ELSE 1)
    IN  IF queue # <<>>
        THEN [done |-> FALSE,
              heap |-> drained.heap,
              item |-> Head(queue),
              frame |-> [frame EXCEPT !.pos = "pass1", !.queue = Tail(queue),
                                      !.constructed = @ + Len(drained.items)]]
        ELSE IF j2 # 0 THEN LazyYield(h, frame, "pass2", j2)
        ELSE IF j3 # 0 THEN LazyYield(h, frame, "pass3", j3)
        ELSE [done |-> TRUE, heap |-> h, item |-> NoItem, frame |-> frame]

\* The history entry of a grid handed out by a pull.
Yielded(pulled) ==
    [pass |-> pulled.frame.pos,
     at |-> pulled.item.at,
     widestRowWidth |-> pulled.item.grid.widestRowWidth,
     highestColumnHeight |-> pulled.item.grid.highestColumnHeight]

\* The for-of of generateAllValidWaysToFitPresentsInGrid calls next() on the
\* activation's one-present enumerator, which runs to its next yield or to its end.
ResumeEnumerator ==
    \E pulled \in {Pull(heap, Top)} :
    \E newStack \in {ReplaceTop([pulled.frame EXCEPT
                                    !.pending = IF pulled.done THEN "done" ELSE "value",
                                    !.item = pulled.item,
                                    !.yielded = IF pulled.done THEN @
                                                ELSE Append(@, Yielded(pulled))])} :
        /\ stack' = newStack
        /\ heap' = Collect(pulled.heap, newStack)

PullNext ==
    /\ pc = "search"
    /\ stack # <<>>
    /\ Top.nextPresentToFitIndex # 0
    /\ Top.pending = "none"
    /\ ResumeEnumerator
    /\ UNCHANGED <<presents, region, pc, result, call, ret>>

\* The for-of body: the grid that was pulled is recursed into.
Recurse ==
    stack' = Append(ReplaceTop([Top EXCEPT !.pending = "none", !.item = NoItem]),
                    NewFrame(Top.item.grid, Top.remainingPresentsToFit, Top.item.at))

\* The grid pulled came from the sorted array of the first pass.
FirstPassYield ==
    /\ pc = "search"
    /\ stack # <<>>
    /\ Top.pending = "value"
    /\ Top.pos = "pass1"
    /\ Recurse
    /\ UNCHANGED <<presents, region, pc, result, heap, call, ret>>

\* The grid pulled came from the second pass (columns right of the envelope).
SecondPassYield ==
    /\ pc = "search"
    /\ stack # <<>>
    /\ Top.pending = "value"
    /\ Top.pos = "pass2"
    /\ Recurse
    /\ UNCHANGED <<presents, region, pc, result, heap, call, ret>>

\* The grid pulled came from the third pass (rows below the envelope).
ThirdPassYield ==
    /\ pc = "search"
    /\ stack # <<>>
    /\ Top.pending = "value"
    /\ Top.pos = "pass3"
    /\ Recurse
    /\ UNCHANGED <<presents, region, pc, result, heap, call, ret>>

\* The enumerator was exhausted: the activation returns to its caller.
ReturnToCaller ==
    /\ pc = "search"
    /\ Len(stack) > 1
    /\ Top.pending = "done"
    /\ stack' = SubSeq(stack, 1, Len(stack) - 1)
    /\ heap' = Collect(heap, stack')
    /\ UNCHANGED <<presents, region, pc, result, call, ret>>

\* The outermost activation is exhausted: next() answers done, nothing was yielded.
SearchExhausted ==
    /\ pc = "search"
    /\ Len(stack) = 1
    /\ Top.pending = "done"
    /\ stack' = <<>>
    /\ heap' = Collect(heap, <<>>)
    /\ pc' = "done"
    /\ result' = FALSE
    /\ UNCHANGED <<presents, region, call, ret>>

SearchStep ==
    \/ YieldWitness
    \/ PullNext
    \/ FirstPassYield
    \/ SecondPassYield
    \/ ThirdPassYield
    \/ ReturnToCaller
    \/ SearchExhausted

---------------------------------------------------------------------------
(* Region evaluator. *)

RECURSIVE SumSeq(_)
SumSeq(s) == IF Len(s) = 0 THEN 0 ELSE Head(s) + SumSeq(Tail(s))

\* Mutant: the covered areas are summed without the required counts.
TotalCoveredAreaIgnoringCounts(reg, plist) ==
    SumSeq([i \in 1..Len(reg.presentsToFit) |-> plist[i].coveredArea])

TotalCoveredArea(reg, plist) ==
    SumSeq([i \in 1..Len(reg.presentsToFit) |-> plist[i].coveredArea * reg.presentsToFit[i]])

RECURSIVE MaxOver(_)
MaxOver(s) == IF Len(s) = 0 THEN 0 ELSE Max(Head(s), MaxOver(Tail(s)))

\* Mutant: only the present types the region asks for are looked at.
LargestRequiredPresentWidth(plist) ==
    MaxOver([i \in 1..Len(plist) |->
                IF region.presentsToFit[i] > 0 THEN plist[i].width ELSE 1])

LargestPresentWidth(plist) == MaxOver([i \in 1..Len(plist) |-> plist[i].width])

LargestPresentHeight(plist) == MaxOver([i \in 1..Len(plist) |-> plist[i].height])

\* Mutant: the quotients are rounded up (Math.ceil for Math.floor).
EstimatedMaximumPresentCountCeil(reg, plist) ==
    ((reg.width + LargestPresentWidth(plist) - 1) \div LargestPresentWidth(plist))
        * ((reg.height + LargestPresentHeight(plist) - 1) \div LargestPresentHeight(plist))

EstimatedMaximumPresentCount(reg, plist) ==
    (reg.width \div LargestPresentWidth(plist))
        * (reg.height \div LargestPresentHeight(plist))

AreaRejects(reg, plist) ==
    TotalCoveredArea(reg, plist) > reg.width * reg.height

BoundAccepts(reg, plist) ==
    SumSeq(reg.presentsToFit) <= EstimatedMaximumPresentCount(reg, plist)

\* canPresentsFitInRegion up to its first pull from the search.
Evaluate ==
    /\ pc = "start"
    /\ \/ /\ AreaRejects(region, presents)
          /\ pc' = "done"
          /\ result' = FALSE
          /\ UNCHANGED <<stack, heap>>
       \/ /\ ~AreaRejects(region, presents)
          /\ BoundAccepts(region, presents)
          /\ pc' = "done"
          /\ result' = TRUE
          /\ UNCHANGED <<stack, heap>>
       \/ /\ ~AreaRejects(region, presents)
          /\ ~BoundAccepts(region, presents)
          /\ LET built == buildEmptyRegionGrid(heap, region.height, region.width)
             IN  /\ stack' = <<NewFrame(built.grid, region.presentsToFit, NoPlacement)>>
                 /\ heap' = built.heap
          /\ pc' = "search"
          /\ UNCHANGED result
    /\ UNCHANGED <<presents, region, call, ret>>

PresentLists ==
    UNION {[1..n -> {MakePresent(s) : s \in ShapeLibrary}] : n \in 1..MaxPresentTypes}

Regions(plist) ==
    [width : 1..MaxRegionWidth,
     height : 1..MaxRegionHeight,
     presentsToFit : [1..Len(plist) -> 0..MaxCount]]

Init ==
    /\ presents \in PresentLists
    /\ region \in Regions(presents)
    /\ pc = "start"
    /\ result = FALSE
    /\ stack = <<>>
    /\ heap = <<>>
    /\ call = NoCall
    /\ ret = FALSE

Next == Evaluate \/ SearchStep

Spec == Init /\ [][Next]_vars

\* Whether a step of the evaluation is possible: ENABLED <<Next>>_vars.
NextEnabled == pc # "done"

\* Weak fairness of Next, with its enabling condition written out: the program
\* is one thread that is never suspended for good, so it either reaches a state
\* with no step left or keeps taking steps.
Fairness == []<>(~NextEnabled) \/ []<><<Next>>_vars

SpecLive == Init /\ [][Next]_vars /\ Fairness

SearchPresentLists ==
    UNION {[1..n -> {MakePresent(s) : s \in ShapeLibrary}] : n \in 1..MaxSearchPresentTypes}

SearchRegions(plist) ==
    [width : 1..MaxSearchWidth,
     height : 1..MaxSearchHeight,
     presentsToFit : [1..Len(plist) -> 0..MaxCount]]

\* The search run on its own: generateAllValidWaysToFitPresentsInGrid on an empty
\* grid of the region, pulled once, whatever the pre-checks would have said.
InitSearch ==
    /\ presents \in SearchPresentLists
    /\ region \in SearchRegions(presents)
    /\ pc = "search"
    /\ result = FALSE
    /\ LET built == buildEmptyRegionGrid(<<>>, region.height, region.width)
       IN  /\ stack = <<NewFrame(built.grid, region.presentsToFit, NoPlacement)>>
           /\ heap = built.heap
    /\ call = NoCall
    /\ ret = FALSE

NextSearch == SearchStep

SpecSearch == InitSearch /\ [][NextSearch]_vars

---------------------------------------------------------------------------
(* solveDay12: treeRegions.filter evaluates one region after the other with *)
(* the same presents.  The list holds a region whose evaluation runs the    *)
(* search and the same region turned by a quarter; the first is evaluated   *)
(* once more after the second, so that every evaluation but the first       *)
(* starts from what the evaluations before it have left behind.             *)

\* The regions whose evaluation runs the search.
SearchedRegions(plist) ==
    {r \in Regions(plist) : ~AreaRejects(r, plist) /\ ~BoundAccepts(r, plist)}

\* The region with width and height exchanged.
Transposed(r) == [r EXCEPT !.width = r.height, !.height = r.width]

EvaluationOrder == <<1, 2, 1>>

InitSolve ==
    /\ presents \in PresentLists
    /\ \E a \in SearchedRegions(presents) :
          /\ call = [fn |-> "solveDay12", treeRegions |-> <<a, Transposed(a)>>,
                     order |-> EvaluationOrder, i |-> 1, results |-> <<>>]
          /\ region = a
    /\ pc = "start"
    /\ result = FALSE
    /\ stack = <<>>
    /\ heap = <<>>
    /\ ret = FALSE

\* Mutant: the search has counted down the region's own presentsToFit array,
\* and the region keeps the counts the last activation was left with.
FilterNextCountsConsumed ==
    /\ pc = "done"
    /\ call.fn = "solveDay12"
    /\ \E consumed \in {[region EXCEPT !.presentsToFit =
                            IF stack = <<>> THEN @ ELSE Top.remainingPresentsToFit]} :
       \E regions \in {[call.treeRegions EXCEPT ![call.order[call.i]] = consumed]} :
          \/ /\ call.i < Len(call.order)
             /\ call' = [call EXCEPT !.results = Append(@, result), !.i = @ + 1,
                                     !.treeRegions = regions]
             /\ region' = regions[call.order[call.i + 1]]
             /\ pc' = "start"
          \/ /\ call.i = Len(call.order)
             /\ call' = [call EXCEPT !.results = Append(@, result), !.i = @ + 1,
                                     !.treeRegions = regions]
             /\ region' = region
             /\ pc' = "solved"
    /\ stack' = <<>>
    /\ UNCHANGED <<presents, result, heap, ret>>

\* canPresentsFitInRegion has returned: filter keeps its boolean and calls it on
\* the next region, or is through.  The generator of the evaluation that ended
\* was a local of it and is gone; the grids it made are garbage not yet collected.
FilterNext ==
    /\ pc = "done"
    /\ call.fn = "solveDay12"
    /\ \/ /\ call.i < Len(call.order)
          /\ call' = [call EXCEPT !.results = Append(@, result), !.i = @ + 1]
          /\ region' = call.treeRegions[call.order[call.i + 1]]
          /\ pc' = "start"
       \/ /\ call.i = Len(call.order)
          /\ call' = [call EXCEPT !.results = Append(@, result), !.i = @ + 1]
          /\ region' = region
          /\ pc' = "solved"
    /\ stack' = <<>>
    /\ UNCHANGED <<presents, result, heap, ret>>

NextSolve == Evaluate \/ SearchStep \/ FilterNext

SpecSolve == InitSolve /\ [][NextSolve]_vars

---------------------------------------------------------------------------
(* Harness for canShapeFitOnGridAtCoordinates: the grid ranges over every  *)
(* occupancy matrix of at most MaxFitDim x MaxFitDim cells, the shape over *)
(* the library and the anchor over the grid and one step beyond it.        *)

\* A grid whose rows hold the given occupancy matrix, in a heap of its own.
AllocGrid(matrix) ==
    [heap |-> [r \in 1..Len(matrix) |-> matrix[r]],
     grid |-> [width |-> Len(matrix[1]),
               height |-> Len(matrix),
               widestRowWidth |-> 0,
               highestColumnHeight |-> 0,
               cells |-> [r \in 1..Len(matrix) |-> r]]]

FitGrids ==
    UNION {Matrices(h, w) : h \in 1..MaxFitDim, w \in 1..MaxFitDim}

InitFit ==
    /\ presents = <<>>
    /\ region = [width |-> 0, height |-> 0, presentsToFit |-> <<>>]
    /\ pc = "fit"
    /\ result = FALSE
    /\ stack = <<>>
    /\ \E m \in FitGrids, s \in ShapeLibrary, r \in 0..MaxFitDim, c \in 0..MaxFitDim :
          /\ heap = AllocGrid(m).heap
          /\ call = [fn |-> "canShapeFitOnGridAtCoordinates",
                     grid |-> AllocGrid(m).grid, shape |-> s, row |-> r, col |-> c]
    /\ ret = FALSE

CallCanShapeFit ==
    /\ pc = "fit"
    /\ ret' = canShapeFitOnGridAtCoordinates(heap, call.grid, call.shape, call.row, call.col)
    /\ pc' = "fitDone"
    /\ UNCHANGED <<presents, region, result, stack, heap, call>>

NextFit == CallCanShapeFit

SpecFit == InitFit /\ [][NextFit]_vars

\* 0-based coordinates of the occupied cells of a grid.
OccupiedCells(h, grid) ==
    {rc \in (0..(grid.height - 1)) \X (0..(grid.width - 1)) :
        h[grid.cells[rc[1] + 1]][rc[2] + 1]}

\* 0-based coordinates of the cells a shape fills when anchored at (row, col).
TargetCells(shape, row, col) ==
    {<<row + ij[1] - 1, col + ij[2] - 1>> :
        ij \in {x \in (1..Len(shape)) \X (1..Len(shape[1])) : shape[x[1]][x[2]]}}

BoxInsideGrid(grid, shape, row, col) ==
    row + Len(shape) <= grid.height /\ col + Len(shape[1]) <= grid.width

\* C7: canShapeFitOnGridAtCoordinates returns true iff the shape's bounding box
\* lies within the grid and no filled cell of the shape targets an occupied cell.
C7_CanFitIffInsideAndFree ==
    pc = "fitDone" =>
        (ret <=> /\ BoxInsideGrid(call.grid, call.shape, call.row, call.col)
                 /\ TargetCells(call.shape, call.row, call.col)
                        \cap OccupiedCells(heap, call.grid) = {})

\* The L-tromino is accepted at an anchor where the empty cell of its mask lies
\* over an occupied grid cell.
C7_Witness ==
    /\ pc = "fitDone"
    /\ ret
    /\ call.shape = LTromino
    /\ <<call.row + 1, call.col + 1>> \in OccupiedCells(heap, call.grid)

---------------------------------------------------------------------------
(* Properties of the evaluator and of the search. *)

RegionCells(reg) == (0..(reg.height - 1)) \X (0..(reg.width - 1))

\* Some assignment of a variant and an anchor to every instance still required
\* puts every instance inside the region, off the cells in occ and off the other
\* instances.  An anchor keeps the variant's whole matrix inside the region, so
\* all its filled cells lie inside.
RECURSIVE CanPackFrom(_, _, _, _)
CanPackFrom(reg, plist, occ, counts) ==
    IF \A i \in 1..Len(counts) : counts[i] <= 0 THEN TRUE
    ELSE LET i == CHOOSE x \in 1..Len(counts) : counts[x] > 0
         IN  \E v \in 1..Len(plist[i].shapeVariations) :
                LET shape == plist[i].shapeVariations[v]
                IN  \E r \in 0..(reg.height - Len(shape)) :
                    \E c \in 0..(reg.width - Len(shape[1])) :
                        LET cells == TargetCells(shape, r, c)
                        IN  /\ cells \subseteq RegionCells(reg)
                            /\ cells \cap occ = {}
                            /\ CanPackFrom(reg, plist, occ \cup cells,
                                           [counts EXCEPT ![i] = @ - 1])

PackingExists == CanPackFrom(region, presents, {}, region.presentsToFit)

\* Required covered area and the grid bound, stated on the inputs alone.
RequiredArea ==
    SumSeq([i \in 1..Len(presents) |->
               FilledCount(presents[i].shapeVariations[1]) * region.presentsToFit[i]])

AreaExceedsRegion == RequiredArea > region.width * region.height

GridBoundHolds ==
    LET maxW == CHOOSE w \in {presents[i].width : i \in 1..Len(presents)} :
                    \A j \in 1..Len(presents) : presents[j].width <= w
        maxH == CHOOSE h \in {presents[i].height : i \in 1..Len(presents)} :
                    \A j \in 1..Len(presents) : presents[j].height <= h
    IN  (region.width \div maxW) * (region.height \div maxH) >= SumSeq(region.presentsToFit)

\* C1: whenever a packing of all required instances exists, the evaluator
\* returns true.
C1_Completeness ==
    (pc = "done" /\ PackingExists) => result

\* C2: whenever the evaluator returns true, a packing of all required instances
\* (each in one of its variants, inside the region, no two overlapping) exists.
C2_Soundness ==
    (pc = "done" /\ result) => PackingExists

\* The search has returned a witness made of at least two placements.
C2_Witness ==
    /\ pc = "done"
    /\ result
    /\ Len(stack) >= 3
    /\ PackingExists

\* C3: when the required covered area exceeds the region's area the evaluator
\* returns false, and no grid is ever built and no placement enumerated.
C3_AreaRejectWithoutSearch ==
    AreaExceedsRegion =>
        /\ pc \in {"start", "done"}
        /\ stack = <<>>
        /\ heap = <<>>
        /\ pc = "done" => ~result

\* The evaluator has answered for a region that the area bound rejects although
\* each single present would fit.
C3_Witness ==
    /\ pc = "done"
    /\ AreaExceedsRegion
    /\ ~result
    /\ \A i \in 1..Len(presents) :
          presents[i].coveredArea <= region.width * region.height

\* C4: for a region the area pre-check rejects, the search run on the empty grid
\* yields no grid.
C4_AreaRejectIsNecessary ==
    (pc = "done" /\ AreaExceedsRegion) => ~result

\* The search has run to exhaustion, after placing something, on a region that
\* the area pre-check rejects.
C4_Witness ==
    /\ pc = "done"
    /\ AreaExceedsRegion
    /\ ~result
    /\ \E i \in 1..Len(presents) :
          /\ region.presentsToFit[i] > 0
          /\ \A j \in 1..(i - 1) : region.presentsToFit[j] = 0
          /\ presents[i].width <= region.width
          /\ presents[i].height <= region.height

\* C5: for a region that passes the area pre-check and that the grid bound
\* accepts, the search run on the empty grid yields a fully packed grid.
C5_BoundAcceptIsSound ==
    (pc = "done" /\ ~AreaExceedsRegion /\ GridBoundHolds) => result

\* The search has packed one L-tromino into a 2 x 2 region, which the bound accepts.
C5_Witness ==
    /\ pc = "done"
    /\ result
    /\ GridBoundHolds
    /\ region.width = 2
    /\ region.height = 2
    /\ \E i \in 1..Len(presents) :
          /\ presents[i].shapeVariations[1] = LTromino
          /\ region.presentsToFit[i] = 1
          /\ \A j \in 1..Len(presents) : j # i => region.presentsToFit[j] = 0

\* What a grid holds: its occupancy and its envelope.
GridValue(h, grid) ==
    [cells |-> CellsOf(h, grid),
     widestRowWidth |-> grid.widestRowWidth,
     highestColumnHeight |-> grid.highestColumnHeight]

\* C6: no step of the search changes the grid of an activation that stays live:
\* a placement leaves the grid it was made on, and the grids of all enclosing
\* activations, with the same cells, widestRowWidth and highestColumnHeight.
C6_PlaceLeavesInputUntouched ==
    [][\A i \in 1..Len(stack) :
          i <= Len(stack') =>
              GridValue(heap', stack'[i].grid) = GridValue(heap, stack[i].grid)]_vars

\* A second sibling placement is being explored on a grid that is still empty.
C6_Witness ==
    /\ Len(stack) >= 2
    /\ stack[1].pos = "pass3"
    /\ stack[1].k > 2
    /\ stack[2].at # RangeCandidate(PassRange(stack[1], "pass3"),
                                    Len(presents[stack[1].nextPresentToFitIndex].shapeVariations), 1)
    /\ OccupiedCells(heap, stack[1].grid) = {}
    /\ OccupiedCells(heap, stack[2].grid) # {}

\* The variant whose placement made the grid of activation i (i >= 2).
PlacedShape(i) ==
    presents[stack[i - 1].nextPresentToFitIndex].shapeVariations[stack[i].at.v]

\* C9: along every chain of placements the envelope never shrinks, covers the
\* extent of the shape just placed and stays within the grid.
C9_EnvelopeMonotone ==
    \A i \in 2..Len(stack) :
        LET g == stack[i].grid
            parent == stack[i - 1].grid
        IN  /\ g.widestRowWidth >= parent.widestRowWidth
            /\ g.highestColumnHeight >= parent.highestColumnHeight
            /\ g.widestRowWidth >= stack[i].at.col + Len(PlacedShape(i)[1])
            /\ g.highestColumnHeight >= stack[i].at.row + Len(PlacedShape(i))
            /\ g.widestRowWidth <= g.width
            /\ g.highestColumnHeight <= g.height

\* One shape has been placed that ends left of the envelope's right edge and one
\* that ends above its bottom edge: the edge stays where earlier placements put it.
C9_Witness ==
    /\ \E i \in 3..Len(stack) :
          /\ stack[i].at.col + Len(PlacedShape(i)[1]) < stack[i].grid.widestRowWidth
          /\ stack[i].grid.widestRowWidth = stack[i - 1].grid.widestRowWidth
    /\ \E i \in 3..Len(stack) :
          /\ stack[i].at.row + Len(PlacedShape(i)) < stack[i].grid.highestColumnHeight
          /\ stack[i].grid.highestColumnHeight = stack[i - 1].grid.highestColumnHeight

\* 1 + the largest occupied row / column index of a grid, 0 when it is empty.
OccupiedHeight(h, grid) ==
    LET rows == {rc[1] + 1 : rc \in OccupiedCells(h, grid)}
    IN  IF rows = {} THEN 0 ELSE CHOOSE m \in rows : \A x \in rows : x <= m

OccupiedWidth(h, grid) ==
    LET cols == {rc[2] + 1 : rc \in OccupiedCells(h, grid)}
    IN  IF cols = {} THEN 0 ELSE CHOOSE m \in cols : \A x \in cols : x <= m

\* C10 as stated: the envelope is the smallest origin-anchored rectangle that
\* contains every occupied cell.
C10_EnvelopeTightOnCells ==
    \A i \in 1..Len(stack) :
        /\ stack[i].grid.widestRowWidth = OccupiedWidth(heap, stack[i].grid)
        /\ stack[i].grid.highestColumnHeight = OccupiedHeight(heap, stack[i].grid)

\* The largest right / bottom edge of the matrices placed on the way to activation i.
RECURSIVE PlacedExtentWidth(_)
PlacedExtentWidth(i) ==
    IF i <= 1 THEN 0
    ELSE Max(PlacedExtentWidth(i - 1), stack[i].at.col + Len(PlacedShape(i)[1]))

RECURSIVE PlacedExtentHeight(_)
PlacedExtentHeight(i) ==
    IF i <= 1 THEN 0
    ELSE Max(PlacedExtentHeight(i - 1), stack[i].at.row + Len(PlacedShape(i)))

\* The last row and the last column of the matrix each hold a filled cell: the
\* matrix extends no further down or right than the shape itself.
LastRowAndColumnFilled(shape) ==
    /\ \E j \in 1..Len(shape[1]) : shape[Len(shape)][j]
    /\ \E r \in 1..Len(shape) : shape[r][Len(shape[1])]

\* C10 amended: the envelope is the smallest origin-anchored rectangle that
\* contains the matrix of every placed variant; it contains every occupied
\* cell, and it is the occupied cells' bounding rectangle when every placed
\* variant has a filled cell in its last row and in its last column.
C10_EnvelopeTightOnPlacedMatrices ==
    \A i \in 1..Len(stack) :
        LET g == stack[i].grid
        IN  /\ g.widestRowWidth = PlacedExtentWidth(i)
            /\ g.highestColumnHeight = PlacedExtentHeight(i)
            /\ OccupiedWidth(heap, g) <= g.widestRowWidth
            /\ OccupiedHeight(heap, g) <= g.highestColumnHeight
            /\ (\A j \in 2..i : LastRowAndColumnFilled(PlacedShape(j)))
                   => /\ g.widestRowWidth = OccupiedWidth(heap, g)
                      /\ g.highestColumnHeight = OccupiedHeight(heap, g)

\* Two placements of unpadded variants have been made and the second one lies
\* left of and above the envelope's far corner.
C10_Witness ==
    /\ Len(stack) >= 3
    /\ \A j \in 2..3 : LastRowAndColumnFilled(PlacedShape(j))
    /\ stack[3].at.col + Len(PlacedShape(3)[1]) < stack[3].grid.widestRowWidth
    /\ stack[3].grid.widestRowWidth = OccupiedWidth(heap, stack[3].grid)
    /\ stack[3].grid.highestColumnHeight = OccupiedHeight(heap, stack[3].grid)

---------------------------------------------------------------------------
(* Harness for generateAllValidWaysToFitOnePresentInGrid: one enumerator,  *)
(* on a grid the search can hand it, is pulled by a consumer until it ends. *)
(* The grid is the empty grid of a region or that grid after one placement  *)
(* of a variant of the present, which is what the second activation of a    *)
(* search for two presents of one type works on.                            *)

EnumShapeLibrary == {PaddedMonomino, LTromino, DominoV, WidePaddedMonomino}

\* The empty grid of a region and every grid one placement of a variant of
\* `present` makes of it, each in a heap of its own.
EnumGrids(width, height, present) ==
    LET built == buildEmptyRegionGrid(<<>>, height, width)
        n == Len(present.shapeVariations)
    IN  {[heap |-> built.heap, grid |-> built.grid, at |-> NoPlacement]}
        \cup
        {[heap |-> placeShapeOnGridAtCoordinates(
                       built.heap, built.grid, present.shapeVariations[a[1]], a[2], a[3]).heap,
          grid |-> placeShapeOnGridAtCoordinates(
                       built.heap, built.grid, present.shapeVariations[a[1]], a[2], a[3]).grid,
          at |-> [row |-> a[2], col |-> a[3], v |-> a[1]]] :
            a \in {x \in (1..n) \X (0..(height - 1)) \X (0..(width - 1)) :
                      canShapeFitOnGridAtCoordinates(
                          built.heap, built.grid, present.shapeVariations[x[1]], x[2], x[3])}}

InitEnum ==
    /\ pc = "enum"
    /\ result = FALSE
    /\ call = NoCall
    /\ ret = FALSE
    /\ \E shape \in EnumShapeLibrary, w \in 1..MaxEnumWidth, h \in 1..MaxEnumHeight :
       \E start \in EnumGrids(w, h, MakePresent(shape)) :
          /\ presents = <<MakePresent(shape)>>
          /\ region = [width |-> w, height |-> h, presentsToFit |-> <<1>>]
          /\ stack = <<NewFrame(start.grid, <<1>>, start.at)>>
          /\ heap = Collect(start.heap, <<NewFrame(start.grid, <<1>>, start.at)>>)

\* The consumer calls next() on the enumerator.
EnumPull ==
    /\ pc = "enum"
    /\ Top.pending = "none"
    /\ ResumeEnumerator
    /\ UNCHANGED <<presents, region, pc, result, call, ret>>

\* The consumer is done with the grid it was handed.
EnumTake ==
    /\ pc = "enum"
    /\ Top.pending = "value"
    /\ \E newStack \in {ReplaceTop([Top EXCEPT !.pending = "none", !.item = NoItem])} :
          /\ stack' = newStack
          /\ heap' = Collect(heap, newStack)
    /\ UNCHANGED <<presents, region, pc, result, call, ret>>

\* The enumerator has returned.
EnumEnd ==
    /\ pc = "enum"
    /\ Top.pending = "done"
    /\ pc' = "enumDone"
    /\ UNCHANGED <<presents, region, result, stack, heap, call, ret>>

NextEnum == EnumPull \/ EnumTake \/ EnumEnd

SpecEnum == InitEnum /\ [][NextEnum]_vars

\* Where an anchor lies with respect to the envelope of the grid it is tried
\* on: 1 inside, 2 to the right of it, 3 below it.
AnchorClass(grid, at) ==
    IF at.row >= grid.highestColumnHeight THEN 3
    ELSE IF at.col >= grid.widestRowWidth THEN 2
    ELSE 1

PassNumber(pass) == IF pass = "pass1" THEN 1 ELSE IF pass = "pass2" THEN 2 ELSE 3

\* C11: whenever an enumerator has yielded a grid, that grid comes from the
\* pass its anchor belongs to (1 inside the envelope, 2 right of it, 3 below
\* it), no grid the enumerator yielded before it is anchored in a later class
\* (so inside comes before right, and right before below), and none of them
\* is the same (variant, row, col).
C11_PassesInPriorityOrder ==
    \A f \in 1..Len(stack) :
        LET ys == stack[f].yielded
            b == Len(ys)
        IN  b > 0 =>
              /\ PassNumber(ys[b].pass) = AnchorClass(stack[f].grid, ys[b].at)
              /\ \A a \in 1..(b - 1) :
                    /\ AnchorClass(stack[f].grid, ys[a].at)
                          <= AnchorClass(stack[f].grid, ys[b].at)
                    /\ ys[a].at # ys[b].at

\* One enumerator has yielded from each of its three passes.
C11_Witness ==
    \E f \in 1..Len(stack) :
        \A n \in 1..3 :
            \E a \in 1..Len(stack[f].yielded) :
                AnchorClass(stack[f].grid, stack[f].yielded[a].at) = n

\* C12: whenever the first pass of an enumerator has yielded a grid, no grid
\* that pass yielded before it has a widestRowWidth and a highestColumnHeight
\* that are both strictly larger than its own.
C12_FirstPassSortedByExtent ==
    \A f \in 1..Len(stack) :
        LET ys == stack[f].yielded
            b == Len(ys)
        IN  (b > 0 /\ ys[b].pass = "pass1") =>
                \A a \in 1..(b - 1) :
                    ~(/\ ys[a].widestRowWidth > ys[b].widestRowWidth
                      /\ ys[a].highestColumnHeight > ys[b].highestColumnHeight)

\* The anchors the third pass is specified to range over: rows from the
\* envelope's height to grid.height - present.height, columns from 0 to
\* grid.width - present.width.
BelowEnvelopeAnchors(grid, present) ==
    (grid.highestColumnHeight..(grid.height - present.height))
        \X (0..(grid.width - present.width))

\* C13: every grid the third pass of an enumerator yields is anchored in
\* BelowEnvelopeAnchors, and once the enumerator has returned, every variant
\* that fits at an anchor of BelowEnvelopeAnchors has been yielded there by the
\* third pass.
C13_ThirdPassRange ==
    \A f \in 1..Len(stack) :
        stack[f].nextPresentToFitIndex # 0 =>
            LET frame == stack[f]
                present == presents[frame.nextPresentToFitIndex]
                ys == frame.yielded
                b == Len(ys)
            IN  /\ (b > 0 /\ ys[b].pass = "pass3") =>
                      <<ys[b].at.row, ys[b].at.col>> \in BelowEnvelopeAnchors(frame.grid, present)
                /\ frame.pending = "done" =>
                      \A rc \in BelowEnvelopeAnchors(frame.grid, present) :
                      \A v \in 1..Len(present.shapeVariations) :
                          canShapeFitOnGridAtCoordinates(heap, frame.grid,
                                                         present.shapeVariations[v], rc[1], rc[2])
                              => \E a \in 1..b :
                                    /\ ys[a].pass = "pass3"
                                    /\ ys[a].at = [row |-> rc[1], col |-> rc[2], v |-> v]

\* C14 as stated: at every moment an enumerator has constructed at most one
\* successor grid more than its consumer has pulled from it.
C14_AtMostOneAhead ==
    \A f \in 1..Len(stack) :
        stack[f].constructed - Len(stack[f].yielded) <= 1

\* C14 as amended: the second and the third pass construct nothing ahead (what
\* the enumerator has constructed is what has been pulled from it), and in the
\* first pass the enumerator is ahead by exactly the grids of the sorted array
\* that have not been pulled yet, all of them constructed on the first pull.
C14_LazyAfterFirstPass ==
    \A f \in 1..Len(stack) :
        /\ stack[f].constructed - Len(stack[f].yielded) = Len(stack[f].queue)
        /\ stack[f].pos \in {"pass2", "pass3"}
              => stack[f].constructed = Len(stack[f].yielded)
        /\ stack[f].queue # <<>> => stack[f].pos = "pass1"

\* An enumerator whose first pass made three grids or more, all handed out
\* since, has just yielded a grid of a later pass.
C14_Witness ==
    \E f \in 1..Len(stack) :
        /\ stack[f].pos \in {"pass2", "pass3"}
        /\ stack[f].pending = "value"
        /\ Len(stack[f].yielded) >= 4
        /\ stack[f].yielded[3].pass = "pass1"

\* A fully packed grid has been yielded to canPresentsFitInRegion.
WitnessYielded == stack # <<>> /\ Top.pos = "yielded"

\* The live activations form one branch: each works on the grid its caller's
\* enumerator yielded last, with the caller's remaining counts, and only the
\* innermost one holds an enumerator result not yet acted upon.
DepthFirst ==
    \A i \in 1..(Len(stack) - 1) :
        /\ stack[i].yielded # <<>>
        /\ stack[i + 1].at = stack[i].yielded[Len(stack[i].yielded)].at
        /\ stack[i + 1].presentsToFit = stack[i].remainingPresentsToFit
        /\ stack[i].pending = "none"

\* C15: the search is depth-first along the enumerators' order, the first
\* fully packed grid that is yielded ends the evaluation with true, and from
\* then on no activation is resumed and no grid is made: stack and heap stay
\* as they are.
C15_FirstMatchShortCircuit ==
    /\ [](DepthFirst /\ (WitnessYielded => (pc = "done" /\ result = TRUE)))
    /\ [][WitnessYielded => UNCHANGED <<stack, heap, pc, result>>]_vars

\* The first fully packed grid was yielded after the search had backtracked:
\* some activation on the branch had its enumerator pulled more than once.
C15_Witness ==
    /\ WitnessYielded
    /\ pc = "done"
    /\ \E i \in 1..Len(stack) : Len(stack[i].yielded) >= 2

\* What C16 asks of one activation of the search and of the one it called.
SearchTransition(i) ==
    LET frame == stack[i]
        idx == frame.nextPresentToFitIndex
        counts == frame.presentsToFit
    IN  /\ idx = 0 <=> \A j \in 1..Len(counts) : counts[j] <= 0
        /\ idx # 0 => /\ counts[idx] > 0
                      /\ \A j \in 1..(idx - 1) : counts[j] <= 0
        /\ frame.pos = "yielded" => idx = 0
        /\ (idx = 0 /\ pc = "done") => frame.pos = "yielded"
        /\ i < Len(stack) =>
              /\ idx # 0
              /\ stack[i + 1].at.v \in 1..Len(presents[idx].shapeVariations)
              /\ \A j \in 1..Len(counts) :
                    stack[i + 1].presentsToFit[j]
                        = IF j = idx THEN counts[j] - 1 ELSE counts[j]

\* C16: every activation takes the lowest-indexed present whose count is above
\* zero, the activation it calls gets the same counts with that one lowered by
\* one, an activation yields its grid exactly when no count is above zero, and
\* the counts an activation or the evaluator passed in never change: neither
\* region.presentsToFit nor the presentsToFit of an activation that stays live.
C16_SearchTransition ==
    /\ [](/\ \A i \in 1..Len(stack) : SearchTransition(i)
          /\ stack # <<>> => stack[1].presentsToFit = region.presentsToFit)
    /\ [][/\ region' = region
          /\ \A i \in 1..Len(stack) :
                i <= Len(stack') => stack'[i].presentsToFit = stack[i].presentsToFit]_vars

\* A packed grid was yielded by a search that went from the first present type,
\* once its count had reached zero, to the second.
C16_Witness ==
    /\ WitnessYielded
    /\ \E i \in 1..(Len(stack) - 1) :
          /\ i > 1
          /\ stack[i].nextPresentToFitIndex = 2
          /\ stack[i].presentsToFit[1] = 0
          /\ stack[i - 1].nextPresentToFitIndex = 1

\* Number of present instances the region asks for.
TotalInstances == SumSeq(region.presentsToFit)

\* Number of recursive calls below the outermost activation of the search.
RecursionDepth == Len(stack) - 1

\* The guard of some action of the evaluation holds.
StepPossible ==
    \/ pc = "start"
    \/ /\ pc = "search"
       /\ stack # <<>>
       /\ \/ Top.pos = "entry" /\ Top.nextPresentToFitIndex = 0
          \/ Top.nextPresentToFitIndex # 0 /\ Top.pending = "none"
          \/ Top.pending = "value" /\ Top.pos \in {"pass1", "pass2", "pass3"}
          \/ Top.pending = "done"

\* C17: every evaluation ends (it can always take a step until it has, and
\* under fairness it reaches its end), with result a boolean; while the search runs
\* its recursion depth is at most the number of instances to place, and it is
\* exactly that number when a packed grid is yielded.
C17_TerminatesWithinDepth ==
    /\ <>(pc = "done")
    /\ [](NextEnabled => StepPossible)
    /\ [](pc = "done" => result \in BOOLEAN)
    /\ [](stack # <<>> => RecursionDepth <= TotalInstances)
    /\ [](WitnessYielded => RecursionDepth = TotalInstances)

\* A search for three instances or more has ended on a packed grid.
C17_Witness ==
    /\ WitnessYielded
    /\ pc = "done"
    /\ TotalInstances >= 3
    /\ RecursionDepth = TotalInstances

\* What the specification calls malformed input: a present wider than the
\* region, a shape with no filled cell, a shape whose rows differ in length.
Malformed(present, reg) ==
    \/ present.width > reg.width
    \/ present.coveredArea = 0
    \/ \E r \in 1..Len(present.shapeVariations[1]) :
          Len(present.shapeVariations[1][r]) # Len(present.shapeVariations[1][1])

\* C18: when a present of the list is malformed, no search is run: the
\* evaluation never enters the search and no activation of it ever exists.
C18_MalformedNeverSearched ==
    (\E i \in 1..Len(presents) : Malformed(presents[i], region))
        => (pc # "search" /\ stack = <<>>)

OriginalWidth(i) == Len(presents[i].shapeVariations[1][1])
OriginalHeight(i) == Len(presents[i].shapeVariations[1])

\* The largest of them over every present type of the list.
GlobalMaxWidth ==
    CHOOSE w \in {OriginalWidth(i) : i \in 1..Len(presents)} :
        \A i \in 1..Len(presents) : OriginalWidth(i) <= w
GlobalMaxHeight ==
    CHOOSE h \in {OriginalHeight(i) : i \in 1..Len(presents)} :
        \A i \in 1..Len(presents) : OriginalHeight(i) <= h

\* The evaluation has ended with true and no search was started.
AcceptedWithoutSearch == pc = "done" /\ result = TRUE /\ stack = <<>>

\* C20: an evaluation ends with true without a search exactly when the area
\* pre-check passes and floor(width / GlobalMaxWidth) * floor(height /
\* GlobalMaxHeight) is at least the sum of the required counts, the two maxima
\* being taken over all present types, as parsed.
C20_AcceptWithoutSearch ==
    pc = "done" =>
        (AcceptedWithoutSearch
            <=> /\ RequiredArea <= region.width * region.height
                /\ (region.width \div GlobalMaxWidth) * (region.height \div GlobalMaxHeight)
                      >= SumSeq(region.presentsToFit))

\* Accepted without search although the widest present type, which alone
\* keeps the bound from being larger, is one the region asks none of; and the
\* region asks for some present.
C20_Witness ==
    /\ AcceptedWithoutSearch
    /\ SumSeq(region.presentsToFit) > 0
    /\ \E i \in 1..Len(presents) :
          /\ region.presentsToFit[i] = 0
          /\ OriginalWidth(i) = GlobalMaxWidth
          /\ \A j \in 1..Len(presents) : j # i => OriginalWidth(j) < GlobalMaxWidth

\* Covered area of the instances placed on the grid of activation i: for each
\* present type, the instances the region requires less those the activation
\* has still to place.
PlacedArea(i) ==
    SumSeq([j \in 1..Len(presents) |->
               presents[j].coveredArea * (region.presentsToFit[j] - stack[i].presentsToFit[j])])

\* The grid has the rows and columns of the region and nothing outside them.
GridSpansRegion(h, grid) ==
    /\ grid.width = region.width
    /\ grid.height = region.height
    /\ Len(grid.cells) = region.height
    /\ \A r \in 1..Len(grid.cells) : Len(h[grid.cells[r]]) = region.width

\* C27: every grid the search works on or has been handed by an enumerator
\* holds as many occupied cells as the instances placed on it cover, inside the
\* region; the fully packed grid the search yields holds
\* sum(coveredArea * required count) occupied cells.
C27_OccupiedCellsMatchPlacedArea ==
    /\ \A i \in 1..Len(stack) :
           /\ GridSpansRegion(heap, stack[i].grid)
           /\ Cardinality(OccupiedCells(heap, stack[i].grid)) = PlacedArea(i)
    /\ (stack # <<>> /\ Top.pending = "value") =>
           /\ GridSpansRegion(heap, Top.item.grid)
           /\ Cardinality(OccupiedCells(heap, Top.item.grid))
                  = PlacedArea(Len(stack)) + presents[Top.nextPresentToFitIndex].coveredArea
    /\ \A i \in 1..Len(stack) : \A k \in 1..Len(stack[i].queue) :
           /\ GridSpansRegion(heap, stack[i].queue[k].grid)
           /\ Cardinality(OccupiedCells(heap, stack[i].queue[k].grid))
                  = PlacedArea(i) + presents[stack[i].nextPresentToFitIndex].coveredArea
    /\ WitnessYielded =>
           Cardinality(OccupiedCells(heap, Top.grid))
               = SumSeq([j \in 1..Len(presents) |->
                            presents[j].coveredArea * region.presentsToFit[j]])

\* A fully packed grid was yielded after three placements, one of them of a
\* shape whose matrix has an empty cell, and it leaves a cell of the region free.
C27_Witness ==
    /\ WitnessYielded
    /\ Len(stack) = 4
    /\ \E i \in 1..Len(presents) :
           /\ region.presentsToFit[i] > 0
           /\ presents[i].coveredArea < presents[i].width * presents[i].height
    /\ Cardinality(OccupiedCells(heap, Top.grid)) < region.width * region.height

\* The positions that exist in the row arrays of a grid, which are those of
\* [0, grid.height) x [0, grid.width).
ExistingCells(h, grid) ==
    {rc \in (0..(Len(grid.cells) - 1)) \X (0..(grid.width - 1)) :
        rc[1] < grid.height /\ rc[2] < Len(h[grid.cells[rc[1] + 1]])}

\* The anchors and variants the three passes of an activation's enumerator go
\* through on its grid.
AnchorsOfThreePasses(frame) ==
    LET present == presents[frame.nextPresentToFitIndex]
        ranges == {Pass1Range(frame.grid, present), Pass2Range(frame.grid, present),
                   Pass3Range(frame.grid, present)}
    IN  UNION {[row : range.rowStart..(range.rowEnd - 1),
                col : range.colStart..(range.colEnd - 1),
                v : 1..Len(present.shapeVariations)] : range \in ranges}

\* C29: at every anchor the three passes of the innermost activation go
\* through, with every variant, canShapeFitOnGridAtCoordinates reads only
\* existing cells of the grid, and where it returns true
\* placeShapeOnGridAtCoordinates writes only existing cells.
C29_AccessesInsideGrid ==
    (stack # <<>> /\ Top.nextPresentToFitIndex > 0) =>
        \A a \in AnchorsOfThreePasses(Top) :
            LET shape == presents[Top.nextPresentToFitIndex].shapeVariations[a.v]
            IN  /\ CellsReadByCanShapeFit(Top.grid, shape, a.row, a.col)
                       \subseteq ExistingCells(heap, Top.grid)
                /\ canShapeFitOnGridAtCoordinates(heap, Top.grid, shape, a.row, a.col)
                       => CellsWrittenByPlaceShape(shape, a.row, a.col)
                              \subseteq ExistingCells(heap, Top.grid)

\* An activation works on a grid that holds a placement; its third pass goes
\* through an anchor row below the last row of the grid, and a variant fits at
\* an anchor of its second pass.
C29_Witness ==
    /\ stack # <<>>
    /\ Top.nextPresentToFitIndex > 0
    /\ OccupiedCells(heap, Top.grid) # {}
    /\ \E a \in AnchorsOfThreePasses(Top) : a.row >= Top.grid.height
    /\ \E a \in AnchorsOfThreePasses(Top) :
           /\ a.col >= Top.grid.widestRowWidth
           /\ a.row < Top.grid.highestColumnHeight
           /\ canShapeFitOnGridAtCoordinates(heap, Top.grid,
                  presents[Top.nextPresentToFitIndex].shapeVariations[a.v], a.row, a.col)

---------------------------------------------------------------------------
(* Harness for the shape canonicalizer: the input shape ranges over every  *)
(* boolean matrix of at most MaxShapeDim x MaxShapeDim cells.              *)

AllShapes ==
    UNION {Matrices(h, w) : h \in 1..MaxShapeDim, w \in 1..MaxShapeDim}

InitShapes ==
    /\ presents = <<>>
    /\ region = [width |-> 0, height |-> 0, presentsToFit |-> <<>>]
    /\ pc = "shape"
    /\ result = FALSE
    /\ stack = <<>>
    /\ heap = <<>>
    /\ call \in {[fn |-> "computeShapeVariations", shape |-> s] : s \in AllShapes}
    /\ ret = <<>>

CallComputeShapeVariations ==
    /\ pc = "shape"
    /\ ret' = computeShapeVariations(call.shape)
    /\ pc' = "shapeDone"
    /\ UNCHANGED <<presents, region, result, stack, heap, call>>

NextShapes == CallComputeShapeVariations

SpecShapes == InitShapes /\ [][NextShapes]_vars

\* C8: computeShapeVariations returns between 1 and 8 variants, pairwise
\* structurally distinct, each with as many filled cells as the original.
C8_VariantsDistinctSameArea ==
    pc = "shapeDone" =>
        /\ Len(ret) >= 1
        /\ Len(ret) <= 8
        /\ \A i, j \in 1..Len(ret) : i # j => ret[i] # ret[j]
        /\ \A i \in 1..Len(ret) : FilledCount(ret[i]) = FilledCount(call.shape)

\* A shape with a mirror symmetry has been canonicalized to fewer than 8 variants,
\* and an asymmetric one to exactly 8.
C8_Witness ==
    /\ pc = "shapeDone"
    /\ Len(ret) = 4
    /\ FilledCount(call.shape) = 3
    /\ Len(call.shape) = 2

\* The two reflections that generate the symmetries of the square, written on
\* cell coordinates: across the main diagonal and across the vertical axis.
Transpose(shape) ==
    [c \in 1..Len(shape[1]) |-> [r \in 1..Len(shape) |-> shape[r][c]]]

MirrorHorizontally(shape) ==
    [r \in 1..Len(shape) |->
        [c \in 1..Len(shape[1]) |-> shape[r][Len(shape[1]) + 1 - c]]]

\* The images of a shape under the 8 symmetries of the square.
SymmetryOrbit(shape) ==
    LET T(x) == Transpose(x)
        M(x) == MirrorHorizontally(x)
    IN  {shape, M(shape), T(shape), T(M(shape)), M(T(shape)),
         M(T(M(shape))), T(M(T(shape))), T(M(T(M(shape))))}

\* C28: the shapes computeShapeVariations returns are exactly the images of
\* the shape under the 8 rotations and reflections of the square, the original
\* shape comes first, and a further call returns the same list.
C28_VariantsAreSymmetryOrbit ==
    pc = "shapeDone" =>
        /\ {ret[k] : k \in 1..Len(ret)} = SymmetryOrbit(call.shape)
        /\ ret[1] = call.shape
        /\ computeShapeVariations(call.shape) = ret

\* A shape without any symmetry, wider than tall, has been given its 8 images,
\* the anti-transpose among them.
C28_Witness ==
    /\ pc = "shapeDone"
    /\ Len(ret) = 8
    /\ Len(call.shape) = 2
    /\ Len(call.shape[1]) = 3
    /\ \E k \in 1..8 : ret[k] = Transpose(MirrorHorizontally(
                                    Transpose(MirrorHorizontally(Transpose(call.shape)))))

---------------------------------------------------------------------------
(* Day 1 part 2: the dial counter.  day1 reads one rotation per line from  *)
(* its stream; the model feeds it a nondeterministic rotation per step and *)
(* counts beside it, click by click, how often the dial points at 0.       *)
(* Two versions of day1 are in the source: the one taking a ReadStream     *)
(* (day1/part2/index.ts) and the one taking a file path.                   *)

MaxRotations == 2
MaxAmount == 150

MAX_DIAL_AMOUNT == 100

Day1Versions == {"stream", "filePath"}

\* Number of single clicks of a rotation after which the dial points at 0.
ZeroClicks(dial, direction, amount) ==
    Cardinality({k \in 1..amount :
        (IF direction = "R" THEN dial + k ELSE dial - k) % MAX_DIAL_AMOUNT = 0})

\* while (dial < 0) { zeroesCount++; dial += MAX_DIAL_AMOUNT; }
RECURSIVE WrapNegativeDial(_, _)
WrapNegativeDial(dial, zeroesCount) ==
    IF dial < 0
    THEN WrapNegativeDial(dial + MAX_DIAL_AMOUNT, zeroesCount + 1)
    ELSE [dial |-> dial, zeroesCount |-> zeroesCount]

RotateRight(dial, zeroesCount, amount) ==
    [dial |-> (dial + amount) % MAX_DIAL_AMOUNT,
     zeroesCount |-> zeroesCount + ((dial + amount) \div MAX_DIAL_AMOUNT)]

\* The 'L' branch of the version that takes a ReadStream.
RotateLeftStream(dial, zeroesCount, amount) ==
    WrapNegativeDial(dial - amount,
                     IF dial - amount = 0 THEN zeroesCount + 1 ELSE zeroesCount)

\* The 'L' branch of the version that takes a file path.
RotateLeftFilePath(dial, zeroesCount, amount) ==
    LET wrapped == WrapNegativeDial(dial - amount,
                                    IF dial = 0 THEN zeroesCount - 1 ELSE zeroesCount)
    IN  [wrapped EXCEPT !.zeroesCount = IF wrapped.dial = 0 THEN @ + 1 ELSE @]

InitDay1 ==
    /\ presents = <<>>
    /\ region = [width |-> 0, height |-> 0, presentsToFit |-> <<>>]
    /\ pc = "day1"
    /\ result = FALSE
    /\ stack = <<>>
    /\ heap = <<>>
    /\ call \in {[fn |-> "day1", version |-> v, dial |-> 50, zeroesCount |-> 0,
                  lines |-> 0, zeroClicks |-> 0, startedAtZero |-> FALSE,
                  fullTurn |-> FALSE] : v \in Day1Versions}
    /\ ret = <<>>

Day1Rotation ==
    /\ pc = "day1"
    /\ call.lines < MaxRotations
    /\ \E direction \in {"L", "R"}, amount \in 0..MaxAmount :
       \E after \in {IF direction = "R"
                     THEN RotateRight(call.dial, call.zeroesCount, amount)
                     ELSE IF call.version = "stream"
                          THEN RotateLeftStream(call.dial, call.zeroesCount, amount)
                          ELSE RotateLeftFilePath(call.dial, call.zeroesCount, amount)} :
           call' = [call EXCEPT
                       !.dial = after.dial,
                       !.zeroesCount = after.zeroesCount,
                       !.lines = @ + 1,
                       !.zeroClicks = @ + ZeroClicks(call.dial, direction, amount),
                       !.startedAtZero = @ \/ (call.dial = 0 /\ amount > 0),
                       !.fullTurn = @ \/ amount >= MAX_DIAL_AMOUNT]
    /\ UNCHANGED <<presents, region, pc, result, stack, heap, ret>>

Day1EndOfStream ==
    /\ pc = "day1"
    /\ ret' = call.zeroesCount
    /\ pc' = "day1Done"
    /\ UNCHANGED <<presents, region, result, stack, heap, call>>

NextDay1 == Day1Rotation \/ Day1EndOfStream

SpecDay1 == InitDay1 /\ [][NextDay1]_vars

\* C21: for every sequence of L/R rotations from 50, the ReadStream version of
\* day1 returns the number of single clicks after which the dial points at 0,
\* including rotations that start at 0 and rotations of 100 or more.
C21_CountsEveryZeroClick ==
    (pc = "day1Done" /\ call.version = "stream") => ret = call.zeroClicks

\* The same statement of the version of day1 that takes a file path.
Day1FilePathCountsEveryZeroClick ==
    (pc = "day1Done" /\ call.version = "filePath") => ret = call.zeroClicks

\* The dial stays on the 0..99 face in both versions.
Day1DialOnFace ==
    call.fn = "day1" => call.dial \in 0..(MAX_DIAL_AMOUNT - 1)

---------------------------------------------------------------------------
(* Day 8: the UnionFind class, in its rank-based version (part 1) and its  *)
(* size-based version (part 2).  An instance is a record of its two arrays,*)
(* functions over the element indices 0..n-1; every method returns the     *)
(* instance it leaves behind together with its return value.               *)

MaxElements == 4

UnionFindVersions == {"rank", "size"}

\* constructor(n): every element its own parent; ranks 0, sizes 1.
NewUnionFind(version, n) ==
    [version |-> version,
     parents |-> [i \in 0..(n - 1) |-> i],
     weight  |-> [i \in 0..(n - 1) |-> IF version = "rank" THEN 0 ELSE 1]]

\* find(x).  The destructuring assignment evaluates both right-hand values,
\* assigns x first and only then resolves the target this.parents[x], so the
\* grandparent is stored at the index of the former parent.
RECURSIVE find(_, _)
find(uf, x) ==
    IF x = uf.parents[x]
    THEN [uf |-> uf, value |-> x]
    ELSE LET parent      == uf.parents[x]
             grandparent == uf.parents[uf.parents[x]]
         IN  find([uf EXCEPT !.parents[parent] = grandparent], parent)

\* Mutant: the elements themselves are linked, not their roots.
unionLinkingElements(uf, x, y) ==
    LET fx    == find(uf, x)
        fy    == find(fx.uf, y)
    IN  IF fx.value = fy.value
        THEN [uf |-> fy.uf, value |-> FALSE]
        ELSE [uf |-> [fy.uf EXCEPT !.parents[x] = y], value |-> TRUE]

\* union(x, y) of the rank-based version: on equal ranks rootY becomes the
\* parent and the rank stored at rootX is incremented.
unionByRank(uf, x, y) ==
    LET fx    == find(uf, x)
        fy    == find(fx.uf, y)
        rootX == fx.value
        rootY == fy.value
        u     == fy.uf
    IN  IF rootX = rootY
        THEN [uf |-> u, value |-> FALSE]
        ELSE [uf |-> IF u.weight[rootX] < u.weight[rootY]
                     THEN [u EXCEPT !.parents[rootX] = rootY]
                     ELSE IF u.weight[rootX] > u.weight[rootY]
                     THEN [u EXCEPT !.parents[rootY] = rootX]
                     ELSE [u EXCEPT !.parents[rootX] = rootY,
                                    !.weight[rootX] = @ + 1],
              value |-> TRUE]

\* Mutant: the sizes of the two roots are left as they were.
unionKeepingSizes(uf, x, y) ==
    LET fx    == find(uf, x)
        fy    == find(fx.uf, y)
        rootX == fx.value
        rootY == fy.value
        u     == fy.uf
    IN  IF rootX = rootY
        THEN [uf |-> u, value |-> FALSE]
        ELSE [uf |-> IF u.weight[rootX] > u.weight[rootY]
                     THEN [u EXCEPT !.parents[rootY] = rootX]
                     ELSE [u EXCEPT !.parents[rootX] = rootY],
              value |-> TRUE]

\* union(x, y) of the size-based version: after linking, both former roots
\* store the sum of their sizes.
unionBySize(uf, x, y) ==
    LET fx    == find(uf, x)
        fy    == find(fx.uf, y)
        rootX == fx.value
        rootY == fy.value
        u     == fy.uf
        linked == IF u.weight[rootX] > u.weight[rootY]
                  THEN [u EXCEPT !.parents[rootY] = rootX]
                  ELSE [u EXCEPT !.parents[rootX] = rootY]
    IN  IF rootX = rootY
        THEN [uf |-> u, value |-> FALSE]
        ELSE [uf |-> [linked EXCEPT
                         !.weight[rootX] = u.weight[rootX] + u.weight[rootY],
                         !.weight[rootY] = u.weight[rootX] + u.weight[rootY]],
              value |-> TRUE]

union(uf, x, y) ==
    IF uf.version = "rank" THEN unionByRank(uf, x, y) ELSE unionBySize(uf, x, y)

areConnected(uf, a, b) ==
    LET fa == find(uf, a)
        fb == find(fa.uf, b)
    IN  [uf |-> fb.uf, value |-> fa.value = fb.value]

\* findSize(x), a method of the size-based version only.
findSize(uf, x) ==
    LET fx == find(uf, x)
    IN  [uf |-> fx.uf, value |-> fx.uf.weight[fx.value]]

\* The instance after find(0), find(1), ..., find(i - 1).
RECURSIVE FindEach(_, _)
FindEach(uf, i) ==
    IF i = 0 THEN uf ELSE find(FindEach(uf, i - 1), i - 1).uf

\* getSets(): the elements grouped by root; Object.values lists the groups
\* by ascending root, and each group holds its elements in ascending order.
getSets(uf) ==
    LET n       == Cardinality(DOMAIN uf.parents)
        rootOf  == [i \in 0..(n - 1) |-> find(FindEach(uf, i), i).value]
        roots   == {rootOf[i] : i \in 0..(n - 1)}
        ordered == SmallestFirst(roots, Cardinality(roots))
        group(r) == LET members == {i \in 0..(n - 1) : rootOf[i] = r}
                    IN  SmallestFirst(members, Cardinality(members))
    IN  [uf |-> FindEach(uf, n),
         value |-> [k \in 1..Len(ordered) |-> group(ordered[k])]]

NoOperation == [op |-> "new"]

InitUnionFind ==
    /\ presents = <<>>
    /\ region = [width |-> 0, height |-> 0, presentsToFit |-> <<>>]
    /\ pc = "unionFind"
    /\ result = FALSE
    /\ stack = <<>>
    /\ heap = <<>>
    /\ call \in {[fn |-> "UnionFind", n |-> n, uf |-> NewUnionFind(v, n),
                  before |-> NewUnionFind(v, n), last |-> NoOperation] :
                      v \in UnionFindVersions, n \in 1..MaxElements}
    /\ ret = <<>>

CallUnion ==
    /\ pc = "unionFind"
    /\ \E x, y \in 0..(call.n - 1) :
       \E r \in {union(call.uf, x, y)} :
           /\ call' = [call EXCEPT !.uf = r.uf, !.before = call.uf,
                                   !.last = [op |-> "union", x |-> x, y |-> y]]
           /\ ret' = r.value
    /\ UNCHANGED <<presents, region, pc, result, stack, heap>>

CallFind ==
    /\ pc = "unionFind"
    /\ \E x \in 0..(call.n - 1) :
       \E r \in {find(call.uf, x)} :
           /\ call' = [call EXCEPT !.uf = r.uf, !.before = call.uf,
                                   !.last = [op |-> "find", x |-> x]]
           /\ ret' = r.value
    /\ UNCHANGED <<presents, region, pc, result, stack, heap>>

CallAreConnected ==
    /\ pc = "unionFind"
    /\ \E a, b \in 0..(call.n - 1) :
       \E r \in {areConnected(call.uf, a, b)} :
           /\ call' = [call EXCEPT !.uf = r.uf, !.before = call.uf,
                                   !.last = [op |-> "areConnected", x |-> a, y |-> b]]
           /\ ret' = r.value
    /\ UNCHANGED <<presents, region, pc, result, stack, heap>>

CallFindSize ==
    /\ pc = "unionFind"
    /\ call.uf.version = "size"
    /\ \E x \in 0..(call.n - 1) :
       \E r \in {findSize(call.uf, x)} :
           /\ call' = [call EXCEPT !.uf = r.uf, !.before = call.uf,
                                   !.last = [op |-> "findSize", x |-> x]]
           /\ ret' = r.value
    /\ UNCHANGED <<presents, region, pc, result, stack, heap>>

CallGetSets ==
    /\ pc = "unionFind"
    /\ \E r \in {getSets(call.uf)} :
           /\ call' = [call EXCEPT !.uf = r.uf, !.before = call.uf,
                                   !.last = [op |-> "getSets"]]
           /\ ret' = r.value
    /\ UNCHANGED <<presents, region, pc, result, stack, heap>>

NextUnionFind ==
    CallUnion \/ CallFind \/ CallAreConnected \/ CallFindSize \/ CallGetSets

SpecUnionFind == InitUnionFind /\ [][NextUnionFind]_vars

\* The set an element belongs to, read off the parent pointers without
\* going through find: the elements whose chain of parents ends where a's does.
RECURSIVE ChainEnd(_, _, _)
ChainEnd(parents, a, fuel) ==
    IF a = parents[a] \/ fuel = 0 THEN a ELSE ChainEnd(parents, parents[a], fuel - 1)

SameSet(uf, a, b) ==
    LET n == Cardinality(DOMAIN uf.parents)
    IN  ChainEnd(uf.parents, a, n) = ChainEnd(uf.parents, b, n)

SetOf(uf, a) == {b \in DOMAIN uf.parents : SameSet(uf, a, b)}

\* C22: union(x, y) returns true exactly when x and y were in different sets
\* before the call; afterwards areConnected(x, y) is true, every pair connected
\* before is still connected, and no pair with neither element in the former
\* sets of x or y has become connected.  Both versions.
C22_UnionContract ==
    (call.fn = "UnionFind" /\ call.last.op = "union") =>
        LET x == call.last.x
            y == call.last.y
            touched == SetOf(call.before, x) \cup SetOf(call.before, y)
        IN  /\ ret = ~SameSet(call.before, x, y)
            /\ areConnected(call.uf, x, y).value
            /\ \A a, b \in 0..(call.n - 1) :
                   /\ SameSet(call.before, a, b) => areConnected(call.uf, a, b).value
                   /\ (a \notin touched /\ b \notin touched /\ ~SameSet(call.before, a, b))
                          => ~areConnected(call.uf, a, b).value

\* A union called on two non-root elements has merged their sets of two
\* elements each.
C22_Witness ==
    /\ call.fn = "UnionFind"
    /\ call.last.op = "union"
    /\ ret = TRUE
    /\ Cardinality(SetOf(call.before, call.last.x)) = 2
    /\ Cardinality(SetOf(call.before, call.last.y)) = 2
    /\ call.last.x # call.before.parents[call.last.x]
    /\ call.last.y # call.before.parents[call.last.y]

---------------------------------------------------------------------------
(* Day 8 part 2: junction boxes are joined along the edges of ascending    *)
(* distance until findSize(0) reaches the number of boxes.  The boxes of   *)
(* the model lie on the line y = z = 0 at x in 0..MaxCoordinate.           *)

MaxBoxes == 4
MaxCoordinate == 3

JunctionBoxes ==
    [x : 0..MaxCoordinate, y : {0}, z : {0}]

calculateDistanceSquared(a, b) ==
    (a.x - b.x) * (a.x - b.x) + (a.y - b.y) * (a.y - b.y) + (a.z - b.z) * (a.z - b.z)

\* The pairs i < j in the order of the two nested loops, boxes indexed from 0.
EdgePairs(n) ==
    LET pairs == {p \in (0..(n - 1)) \X (0..(n - 1)) : p[1] < p[2]}
        position(p) == Cardinality({q \in pairs :
                           q[1] < p[1] \/ (q[1] = p[1] /\ q[2] <= p[2])})
    IN  [k \in 1..Cardinality(pairs) |-> CHOOSE p \in pairs : position(p) = k]

\* edges.sort((a, b) => a.distance - b.distance): ascending distance, edges of
\* equal distance in their order of insertion (the sort is stable).
SortedEdges(junctionBoxes) ==
    LET n      == Len(junctionBoxes)
        pairs  == EdgePairs(n)
        edges  == [k \in 1..Len(pairs) |->
                      [i |-> pairs[k][1], j |-> pairs[k][2],
                       distance |-> calculateDistanceSquared(
                                        junctionBoxes[pairs[k][1] + 1],
                                        junctionBoxes[pairs[k][2] + 1])]]
        place(k) == Cardinality({m \in 1..Len(edges) :
                        \/ edges[m].distance < edges[k].distance
                        \/ (edges[m].distance = edges[k].distance /\ m <= k)})
    IN  [r \in 1..Len(edges) |-> edges[CHOOSE k \in 1..Len(edges) : place(k) = r]]

InitDay8 ==
    /\ presents = <<>>
    /\ region = [width |-> 0, height |-> 0, presentsToFit |-> <<>>]
    /\ pc = "day8"
    /\ result = FALSE
    /\ stack = <<>>
    /\ heap = <<>>
    /\ \E n \in 1..MaxBoxes :
       \E junctionBoxes \in [1..n -> JunctionBoxes] :
           call = [fn |-> "day8", n |-> n, junctionBoxes |-> junctionBoxes,
                   edges |-> SortedEdges(junctionBoxes),
                   uf |-> NewUnionFind("size", n),
                   before |-> NewUnionFind("size", n),
                   last |-> NoOperation, i |-> 0]
    /\ ret = <<>>

\* One turn of the while loop: the test, then union(edges[i].i, edges[i].j).
Day8Connect ==
    /\ pc = "day8"
    /\ \E test \in {findSize(call.uf, 0)} :
           /\ test.value < Len(call.junctionBoxes)
           /\ call.i < Len(call.edges)
           /\ \E r \in {union(test.uf, call.edges[call.i + 1].i, call.edges[call.i + 1].j)} :
                  /\ call' = [call EXCEPT
                                 !.uf = r.uf, !.before = test.uf,
                                 !.last = [op |-> "union",
                                           x |-> call.edges[call.i + 1].i,
                                           y |-> call.edges[call.i + 1].j],
                                 !.i = @ + 1]
                  /\ ret' = r.value
    /\ UNCHANGED <<presents, region, pc, result, stack, heap>>

\* The test fails and the loop is left; with one box no connexion was made and
\* reading edges[i - 1].i throws a TypeError.
Day8AllConnected ==
    /\ pc = "day8"
    /\ \E test \in {findSize(call.uf, 0)} :
           /\ ~(test.value < Len(call.junctionBoxes))
           /\ call' = [call EXCEPT !.uf = test.uf]
    /\ pc' = IF call.i = 0 THEN "day8TypeError" ELSE "day8Done"
    /\ ret' = 0
    /\ UNCHANGED <<presents, region, result, stack, heap>>

NextDay8 == NextUnionFind \/ Day8Connect \/ Day8AllConnected

SpecDay8 == (InitUnionFind \/ InitDay8) /\ [][NextDay8]_vars

\* Length of the array of getSets() that contains x.
LengthOfSetContaining(uf, x) ==
    LET sets == getSets(uf).value
    IN  Len(sets[CHOOSE k \in 1..Len(sets) : \E m \in 1..Len(sets[k]) : sets[k][m] = x])

AllInOneSet(uf) == \A a, b \in DOMAIN uf.parents : SameSet(uf, a, b)

\* The sizes stored at the distinct chain ends, summed.
RECURSIVE SumOfRootSizes(_, _)
SumOfRootSizes(uf, roots) ==
    IF roots = {} THEN 0
    ELSE LET r == CHOOSE r \in roots : TRUE
         IN  uf.weight[r] + SumOfRootSizes(uf, roots \ {r})

\* C30: in the size-based version, after any calls, findSize(x) is the number
\* of elements of the set containing x and the length of x's array in
\* getSets(), and the sizes of the sets sum to n; the loop of day8 goes on
\* exactly while the boxes are not all in one set, and is left when they are.
C30_FindSizeIsSetSize ==
    /\ (call.fn \in {"UnionFind", "day8"} /\ call.uf.version = "size") =>
           /\ \A x \in 0..(call.n - 1) :
                  /\ findSize(call.uf, x).value = Cardinality(SetOf(call.uf, x))
                  /\ findSize(call.uf, x).value = LengthOfSetContaining(call.uf, x)
           /\ SumOfRootSizes(call.uf, {find(call.uf, x).value : x \in 0..(call.n - 1)})
                  = call.n
    /\ call.fn = "day8" =>
           /\ (findSize(call.uf, 0).value < Len(call.junctionBoxes))
                  <=> ~AllInOneSet(call.uf)
           /\ pc = "day8" => (ENABLED Day8Connect <=> ~AllInOneSet(call.uf))
           /\ pc \in {"day8Done", "day8TypeError"} => AllInOneSet(call.uf)
           /\ call.last.op = "union" => ~AllInOneSet(call.before)

\* The loop of day8 has been left after joining four boxes, one of its four
\* connexions having found its two boxes already joined.
C30_Witness ==
    /\ call.fn = "day8"
    /\ pc = "day8Done"
    /\ call.n = 4
    /\ call.i = 4
    /\ findSize(call.uf, 3).value = 4

---------------------------------------------------------------------------
(* Day 11 part 1: computePathCount on a device graph.  Devices are numbered*)
(* 1..n in a topological order, so every output of a device has a higher   *)
(* number; the graph maps the devices that have a line of input to their   *)
(* non-empty list of outputs, and has no entry for the others.             *)

MaxVertices == 4

\* The number values computePathCount handles: the non-negative integers and
\* Infinity.
Finite(k) == [infinite |-> FALSE, value |-> k]

Infinity == [infinite |-> TRUE, value |-> 0]

\* JavaScript's + on these values.
NumberPlus(a, b) ==
    IF a.infinite \/ b.infinite THEN Infinity ELSE Finite(a.value + b.value)

\* The graph buildGraph makes of the lines that list, for each device with
\* outputs among the given connexions, its outputs in ascending order.
GraphOfConnexions(connexions) ==
    [device \in {c[1] : c \in connexions} |->
        LET outputs == {c[2] : c \in {x \in connexions : x[1] = device}}
        IN  SmallestFirst(outputs, Cardinality(outputs))]

\* Graphs on n devices whose outputs all carry a higher number than their device.
TopologicalGraphs(n) ==
    {GraphOfConnexions(connexions) :
        connexions \in SUBSET {c \in (1..n) \X (1..n) : c[1] < c[2]}}

RECURSIVE computePathCount(_, _, _)
computePathCount(graph, current, destination) ==
    IF current = destination THEN Finite(1)
    ELSE IF current \notin DOMAIN graph THEN Infinity
    ELSE LET outputs == graph[current]
             reduce[k \in 0..Len(outputs)] ==
                 IF k = 0 THEN Finite(0)
                 ELSE NumberPlus(reduce[k - 1],
                                 computePathCount(graph, outputs[k], destination))
         IN  reduce[Len(outputs)]

InitDay11 ==
    /\ presents = <<>>
    /\ region = [width |-> 0, height |-> 0, presentsToFit |-> <<>>]
    /\ pc = "day11"
    /\ result = FALSE
    /\ stack = <<>>
    /\ heap = <<>>
    /\ \E n \in 1..MaxVertices :
       \E graph \in TopologicalGraphs(n) :
       \E current, destination \in 1..n :
           call = [fn |-> "computePathCount", n |-> n, graph |-> graph,
                   current |-> current, destination |-> destination]
    /\ ret = <<>>

CallComputePathCount ==
    /\ pc = "day11"
    /\ ret' = computePathCount(call.graph, call.current, call.destination)
    /\ pc' = "day11Done"
    /\ UNCHANGED <<presents, region, result, stack, heap, call>>

NextDay11 == CallComputePathCount

SpecDay11 == InitDay11 /\ [][NextDay11]_vars

\* The paths from current to destination, each given by the set of devices it
\* goes through: in a topological numbering a path visits them in ascending
\* order, and it ends the first time it reaches the destination.
PathsBetween(graph, n, current, destination) ==
    {path \in SUBSET (current..destination) :
        /\ current \in path
        /\ destination \in path
        /\ \A v \in path \ {destination} :
               LET next == CHOOSE w \in path : w > v /\ \A u \in path : u > v => w <= u
               IN  v \in DOMAIN graph /\ \E k \in 1..Len(graph[v]) : graph[v][k] = next}

\* C23: in an acyclic graph computePathCount returns the number of distinct
\* paths from the current vertex to the destination; a vertex without outputs
\* that is not the destination contributes 0.
C23_CountsDistinctPaths ==
    pc = "day11Done" =>
        ret = Finite(Cardinality(PathsBetween(call.graph, call.n,
                                              call.current, call.destination)))

\* The same statement for the graphs in which every vertex other than the
\* destination that the traversal comes to has outputs.
Day11CountsPathsWithoutDeadEnds ==
    (pc = "day11Done" /\ ret # Infinity) =>
        ret = Finite(Cardinality(PathsBetween(call.graph, call.n,
                                              call.current, call.destination)))

---------------------------------------------------------------------------
(* Day 10 part 1: the fewest buttons that turn every light off.  A button  *)
(* is an array of light indices (from 0); the buttons array holds          *)
(* references to them, modelled as the positions 1..N in call.buttons, so  *)
(* that two buttons with the same indices remain two buttons.              *)

MaxLights == 2
MaxButtons == 3

\* The value a generator call hands out: the arrays it yields, in order, and
\* whether it ended by throwing a TypeError.
Generated(yields, threw) == [yields |-> yields, threw |-> threw]

\* The while loop of generateCombinations on the yields of res1 (from the
\* i-th on) and res2 (from the j-th on).  When res2 is exhausted before res1,
\* b.value is undefined and reading b.value.length throws.
RECURSIVE MergeByLength(_, _, _, _)
MergeByLength(res1, res2, i, j) ==
    IF i > Len(res1) /\ j > Len(res2) THEN Generated(<<>>, FALSE)
    ELSE IF i <= Len(res1) /\ j > Len(res2) THEN Generated(<<>>, TRUE)
    ELSE IF i <= Len(res1) /\ Len(res1[i]) < Len(res2[j])
         THEN LET rest == MergeByLength(res1, res2, i + 1, j)
              IN  Generated(<<res1[i]>> \o rest.yields, rest.threw)
         ELSE LET rest == MergeByLength(res1, res2, i, j + 1)
              IN  Generated(<<res2[j]>> \o rest.yields, rest.threw)

\* Mutant: all of res1 is yielded before res2.
generateCombinationsUnmerged(buttons, acc) ==
    LET all[k \in 0..Len(buttons)] ==
            IF k = 0 THEN <<acc>>
            ELSE all[k - 1] \o [m \in 1..Len(all[k - 1]) |->
                                   all[k - 1][m] \o <<buttons[Len(buttons) - k + 1]>>]
    IN  Generated(all[Len(buttons)], FALSE)

RECURSIVE generateCombinations(_, _)
generateCombinations(buttons, acc) ==
    IF Len(buttons) > 0
    THEN LET first == buttons[1]
             rest  == Tail(buttons)
             res1  == generateCombinations(rest, acc)
             res2  == generateCombinations(rest, acc \o <<first>>)
             merged == MergeByLength(res1.yields, res2.yields, 1, 1)
         IN  Generated(merged.yields, merged.threw \/ res1.threw \/ res2.threw)
    ELSE Generated(<<acc>>, FALSE)

areAllLightsOff(lights) == \A i \in 1..Len(lights) : ~lights[i]

\* for (const i of button) newLights[i] = !newLights[i], for each button in turn.
RECURSIVE PressButtons(_, _)
PressButtons(newLights, pressed) ==
    IF Len(pressed) = 0 THEN newLights
    ELSE LET button == Head(pressed)
             toggled[k \in 0..Len(button)] ==
                 IF k = 0 THEN newLights
                 ELSE [toggled[k - 1] EXCEPT ![button[k] + 1] = ~@]
         IN  PressButtons(toggled[Len(button)], Tail(pressed))

\* Mutant: the lights are toggled in the array that was passed in.
toggleLightsInPlace(lights, pressed) ==
    [lights |-> PressButtons(lights, pressed), value |-> PressButtons(lights, pressed)]

\* toggleLights: the caller's array as the call leaves it, and the array returned.
toggleLights(lights, pressed) ==
    LET newLights == lights
    IN  [lights |-> lights, value |-> PressButtons(newLights, pressed)]

\* The buttons over l lights: the non-empty ascending lists of light indices.
ButtonsOver(l) ==
    {SmallestFirst(indices, Cardinality(indices)) :
        indices \in (SUBSET (0..(l - 1))) \ {{}}}

NoCombination == [found |-> FALSE, combination |-> <<>>]

InitDay10 ==
    /\ presents = <<>>
    /\ region = [width |-> 0, height |-> 0, presentsToFit |-> <<>>]
    /\ pc = "day10"
    /\ result = FALSE
    /\ stack = <<>>
    /\ heap = <<>>
    /\ \E l \in 1..MaxLights, n \in 0..MaxButtons :
       \E lightDiagram \in [1..l -> BOOLEAN], buttons \in [1..n -> ButtonsOver(l)] :
           call = [fn |-> "computeCorrectButtonCombination",
                   lightDiagram |-> lightDiagram, lights |-> lightDiagram,
                   buttons |-> buttons,
                   combinations |-> generateCombinations([k \in 1..n |-> k], <<>>),
                   pulled |-> 0]
    /\ ret = NoCombination

\* One turn of the for-of loop: the next combination is pulled and tried.
Day10TryCombination ==
    /\ pc = "day10"
    /\ call.pulled < Len(call.combinations.yields)
    /\ \E combination \in {call.combinations.yields[call.pulled + 1]} :
       \E toggled \in {toggleLights(call.lights,
                                    [k \in 1..Len(combination) |-> call.buttons[combination[k]]])} :
           /\ call' = [call EXCEPT !.pulled = @ + 1, !.lights = toggled.lights]
           /\ IF areAllLightsOff(toggled.value)
              THEN /\ ret' = [found |-> TRUE, combination |-> combination]
                   /\ pc' = "day10Done"
              ELSE UNCHANGED <<ret, pc>>
    /\ UNCHANGED <<presents, region, result, stack, heap>>

\* The generator is exhausted: undefined is returned (or its TypeError escapes).
Day10NoCombination ==
    /\ pc = "day10"
    /\ call.pulled = Len(call.combinations.yields)
    /\ pc' = IF call.combinations.threw THEN "day10TypeError" ELSE "day10Done"
    /\ ret' = NoCombination
    /\ UNCHANGED <<presents, region, result, stack, heap, call>>

NextDay10 == Day10TryCombination \/ Day10NoCombination

SpecDay10 == InitDay10 /\ [][NextDay10]_vars

SeqRange(q) == {q[k] : k \in 1..Len(q)}

\* Pressing each button of the set once turns every light of the diagram off:
\* each lit light is wired to an odd number of them, each unlit one to an even
\* number (a button lists a light at most once).
TurnsAllOff(lightDiagram, buttons, pressedSet) ==
    \A i \in 1..Len(lightDiagram) :
        LET toggles == Cardinality({b \in pressedSet :
                           \E k \in 1..Len(buttons[b]) : buttons[b][k] = i - 1})
        IN  lightDiagram[i] = (toggles % 2 = 1)

\* C24: generateCombinations yields each of the 2^N subsets of the buttons
\* exactly once, in non-decreasing order of size; computeCorrectButtonCombination
\* returns a subset with the fewest buttons among those that turn every light
\* of the target off, and undefined when there is none; toggleLights leaves
\* the array it is given unchanged.
C24_FewestButtons ==
    call.fn = "computeCorrectButtonCombination" =>
        LET n      == Len(call.buttons)
            yields == call.combinations.yields
            works(pressedSet) == TurnsAllOff(call.lightDiagram, call.buttons, pressedSet)
        IN  /\ ~call.combinations.threw
            /\ Len(yields) = 2 ^ n
            /\ \A subset \in SUBSET (1..n) :
                   Cardinality({k \in 1..Len(yields) :
                       SeqRange(yields[k]) = subset /\ Len(yields[k]) = Cardinality(subset)}) = 1
            /\ \A k \in 1..(Len(yields) - 1) : Len(yields[k]) <= Len(yields[k + 1])
            /\ call.lights = call.lightDiagram
            /\ pc = "day10Done" =>
                   IF ret.found
                   THEN /\ works(SeqRange(ret.combination))
                        /\ \A subset \in SUBSET (1..n) :
                               works(subset) => Cardinality(subset) >= Len(ret.combination)
                   ELSE \A subset \in SUBSET (1..n) : ~works(subset)

\* Two buttons were returned after the empty set and every single button
\* had been tried without turning the lights off.
C24_Witness ==
    /\ call.fn = "computeCorrectButtonCombination"
    /\ pc = "day10Done"
    /\ ret.found
    /\ Len(ret.combination) = 2
    /\ Len(call.buttons) = 3
    /\ call.pulled >= 5

\* No subset of the buttons turns the lights off and undefined was returned.
Day10UndefinedReturned ==
    /\ call.fn = "computeCorrectButtonCombination"
    /\ pc = "day10Done"
    /\ ~ret.found
    /\ Len(call.buttons) = 3

---------------------------------------------------------------------------
(* Day 5 part 2: the fresh ingredient ranges are sorted by lower bound,    *)
(* overlapping neighbours are merged in place, and the sizes of the        *)
(* remaining ranges are summed.                                            *)

MaxRanges == 3
MaxId == 3

IdRanges ==
    {r \in [lowerBound : 0..MaxId, higherBound : 0..MaxId] :
        r.lowerBound <= r.higherBound}

Min(a, b) == IF a < b THEN a ELSE b

\* .sort((a, b) => a.lowerBound - b.lowerBound): ascending lower bound, ranges
\* of equal lower bound in their order of input (the sort is stable).
SortByLowerBound(ranges) ==
    LET place(k) == Cardinality({m \in 1..Len(ranges) :
                        \/ ranges[m].lowerBound < ranges[k].lowerBound
                        \/ (ranges[m].lowerBound = ranges[k].lowerBound /\ m <= k)})
    IN  [r \in 1..Len(ranges) |-> ranges[CHOOSE k \in 1..Len(ranges) : place(k) = r]]

\* Mutant: the merged range ends where the current range ends.
MergedRangeEndingAtCurrent(previousRange, range) ==
    [lowerBound  |-> Min(previousRange.lowerBound, range.lowerBound),
     higherBound |-> range.higherBound]

\* previousRange after the current range has been merged into it.
MergedRange(previousRange, range) ==
    [lowerBound  |-> Min(previousRange.lowerBound, range.lowerBound),
     higherBound |-> Max(previousRange.higherBound, range.higherBound)]

\* ranges.splice(index, 1), index counted from 0.
SpliceOne(ranges, index) ==
    [k \in 1..(Len(ranges) - 1) |-> IF k <= index THEN ranges[k] ELSE ranges[k + 1]]

InitDay5 ==
    /\ presents = <<>>
    /\ region = [width |-> 0, height |-> 0, presentsToFit |-> <<>>]
    /\ pc = "day5"
    /\ result = FALSE
    /\ stack = <<>>
    /\ heap = <<>>
    /\ \E n \in 0..MaxRanges :
       \E data \in [1..n -> IdRanges] :
           call = [fn |-> "solveDay5Part2", data |-> data,
                   ranges |-> SortByLowerBound(data), i |-> 1, merges |-> 0]
    /\ ret = 0

\* One turn of the merge loop, the i++ of the loop header included.
Day5MergeStep ==
    /\ pc = "day5"
    /\ call.i < Len(call.ranges)
    /\ \E range \in {call.ranges[call.i + 1]}, previousRange \in {call.ranges[call.i]} :
           IF range.lowerBound > previousRange.higherBound
           THEN call' = [call EXCEPT !.i = @ + 1]
           ELSE call' = [call EXCEPT
                            !.ranges = SpliceOne([@ EXCEPT ![call.i] =
                                                     MergedRange(previousRange, range)],
                                                 call.i),
                            !.merges = @ + 1]
    /\ UNCHANGED <<presents, region, pc, result, stack, heap, ret>>

\* The loop is over: the sizes of the remaining ranges are summed and returned.
Day5Total ==
    /\ pc = "day5"
    /\ ~(call.i < Len(call.ranges))
    /\ ret' = SumSeq([k \in 1..Len(call.ranges) |->
                         call.ranges[k].higherBound - call.ranges[k].lowerBound + 1])
    /\ pc' = "day5Done"
    /\ UNCHANGED <<presents, region, result, stack, heap, call>>

NextDay5 == Day5MergeStep \/ Day5Total

SpecDay5 == InitDay5 /\ [][NextDay5]_vars

\* The integers that belong to at least one range of the input.
FreshIds(data) ==
    UNION {data[k].lowerBound..data[k].higherBound : k \in 1..Len(data)}

\* C25: after the merge loop the remaining ranges are pairwise disjoint and
\* sorted by lower bound, and the returned total is the number of distinct
\* integers that belong to at least one input range.
C25_MergedRangesCountFreshIds ==
    (call.fn = "solveDay5Part2" /\ pc = "day5Done") =>
        /\ \A k \in 1..(Len(call.ranges) - 1) :
               call.ranges[k].higherBound < call.ranges[k + 1].lowerBound
        /\ \A k, m \in 1..Len(call.ranges) :
               k # m => (call.ranges[k].lowerBound..call.ranges[k].higherBound)
                            \cap (call.ranges[m].lowerBound..call.ranges[m].higherBound) = {}
        /\ ret = Cardinality(FreshIds(call.data))

\* Three ranges were given, the widest first in sorted order and containing
\* the second; both merges happened and one range is left.
C25_Witness ==
    /\ call.fn = "solveDay5Part2"
    /\ pc = "day5Done"
    /\ Len(call.data) = 3
    /\ call.merges = 2
    /\ Len(call.ranges) = 1
    /\ \E k, m \in 1..3 :
           /\ call.data[k].lowerBound < call.data[m].lowerBound
           /\ call.data[m].higherBound < call.data[k].higherBound

---------------------------------------------------------------------------
(* Harness for generateAllValidWaysToFitPresentInGridForCoordinateRanges:  *)
(* two calls on the same grid, present and range, the second made while    *)
(* the first generator is suspended; their consumers pull them in any      *)
(* order.  The grid is one the search can hand over and the range is one   *)
(* of the three the one-present enumerator passes, or the whole grid.      *)

MaxRangeWidth == 3
MaxRangeHeight == 2

RangeShapeLibrary == {DominoV, LTromino}

CoordinateRanges(grid, present) ==
    {Pass1Range(grid, present), Pass2Range(grid, present), Pass3Range(grid, present),
     [rowStart |-> 0, rowEnd |-> grid.height, colStart |-> 0, colEnd |-> grid.width]}

\* A generator object that has not been pulled yet.
NewRangeGenerator == [started |-> TRUE, k |-> 1, done |-> FALSE, yielded |-> <<>>]

NotCalled == [started |-> FALSE, k |-> 1, done |-> FALSE, yielded |-> <<>>]

InitRange ==
    /\ pc = "range"
    /\ result = FALSE
    /\ ret = FALSE
    /\ stack = <<>>
    /\ \E shape \in RangeShapeLibrary, w \in 1..MaxRangeWidth, h \in 1..MaxRangeHeight :
       \E start \in EnumGrids(w, h, MakePresent(shape)) :
       \E range \in CoordinateRanges(start.grid, MakePresent(shape)) :
          /\ presents = <<MakePresent(shape)>>
          /\ region = [width |-> w, height |-> h, presentsToFit |-> <<1>>]
          /\ heap = start.heap
          /\ call = [fn |-> "generateAllValidWaysToFitPresentInGridForCoordinateRanges",
                     grid |-> start.grid, range |-> range,
                     first |-> NewRangeGenerator, second |-> NotCalled]

\* The function is called a second time with the same arguments.
RangeSecondCall ==
    /\ pc = "range"
    /\ ~call.second.started
    /\ call' = [call EXCEPT !.second = NewRangeGenerator]
    /\ UNCHANGED <<presents, region, pc, result, stack, heap, ret>>

\* next() on a generator: it runs from its own row, column and variant on to
\* the next variant that fits, places it on a copy of the grid and yields the
\* copy, or it runs out of anchors and returns.
RangeNext(generator) ==
    LET present == presents[1]
        n == Len(present.shapeVariations)
        j == NextFitting(heap, call.grid, present, call.range, generator.k)
        cand == RangeCandidate(call.range, n, j)
        placed == placeShapeOnGridAtCoordinates(heap, call.grid,
                      present.shapeVariations[cand.v], cand.row, cand.col)
    IN  IF j = 0
        THEN [generator EXCEPT !.done = TRUE]
        ELSE [generator EXCEPT
                 !.k = j + 1,
                 !.yielded = Append(@, [row |-> cand.row, col |-> cand.col, v |-> cand.v,
                                        cells |-> OccupiedCells(placed.heap, placed.grid)])]

RangePullFirst ==
    /\ pc = "range"
    /\ ~call.first.done
    /\ call' = [call EXCEPT !.first = RangeNext(call.first)]
    /\ UNCHANGED <<presents, region, pc, result, stack, heap, ret>>

RangePullSecond ==
    /\ pc = "range"
    /\ call.second.started
    /\ ~call.second.done
    /\ call' = [call EXCEPT !.second = RangeNext(call.second)]
    /\ UNCHANGED <<presents, region, pc, result, stack, heap, ret>>

NextRange == RangeSecondCall \/ RangePullFirst \/ RangePullSecond

SpecRange == InitRange /\ [][NextRange]_vars

\* (row, col, variant) a comes before b in row-major order with the variants
\* of one anchor in list order.
RowMajorBefore(a, b) ==
    \/ a.row < b.row
    \/ a.row = b.row /\ a.col < b.col
    \/ a.row = b.row /\ a.col = b.col /\ a.v < b.v

\* The anchors and variants of the range whose variant legally fits on the grid.
FittingInRange ==
    {c \in [row : call.range.rowStart..(call.range.rowEnd - 1),
            col : call.range.colStart..(call.range.colEnd - 1),
            v : 1..Len(presents[1].shapeVariations)] :
        canShapeFitOnGridAtCoordinates(heap, call.grid,
            presents[1].shapeVariations[c.v], c.row, c.col)}

RowMajorEnumeration(generator) ==
    LET yielded == generator.yielded
        at(k) == [row |-> yielded[k].row, col |-> yielded[k].col, v |-> yielded[k].v]
    IN  /\ \A k \in 1..Len(yielded) :
               /\ at(k) \in FittingInRange
               /\ yielded[k].cells =
                      OccupiedCells(heap, call.grid)
                          \cup TargetCells(presents[1].shapeVariations[yielded[k].v],
                                           yielded[k].row, yielded[k].col)
        /\ \A k \in 1..(Len(yielded) - 1) : RowMajorBefore(at(k), at(k + 1))
        /\ \A c \in FittingInRange :
               \/ \E k \in 1..Len(yielded) : at(k) = c
               \/ /\ ~generator.done
                  /\ yielded = <<>> \/ RowMajorBefore(at(Len(yielded)), c)

\* C26: one call visits the anchors of its range row by row, columns inside a
\* row, and at each anchor yields one successor grid per variant that legally
\* fits, in the order of shapeVariations, and none for a variant that does not;
\* a second call enumerates from the start of the range whatever the position
\* of the first.
C26_RowMajorPerCall ==
    call.fn = "generateAllValidWaysToFitPresentInGridForCoordinateRanges" =>
        /\ RowMajorEnumeration(call.first)
        /\ RowMajorEnumeration(call.second)

\* Both calls have run to their end on a grid that holds a placement, with
\* the same yields; the yields span two rows and two columns, two of them are
\* at one anchor, and some variant did not fit at some anchor of the range.
C26_Witness ==
    /\ call.fn = "generateAllValidWaysToFitPresentInGridForCoordinateRanges"
    /\ call.first.done
    /\ call.second.done
    /\ call.first.yielded = call.second.yielded
    /\ \E k, m \in 1..Len(call.first.yielded) :
           /\ call.first.yielded[k].row < call.first.yielded[m].row
           /\ call.first.yielded[k].col > call.first.yielded[m].col
    /\ \E k \in 1..(Len(call.first.yielded) - 1) :
           /\ call.first.yielded[k].row = call.first.yielded[k + 1].row
           /\ call.first.yielded[k].col = call.first.yielded[k + 1].col
    /\ Cardinality(FittingInRange) <
           (call.range.rowEnd - call.range.rowStart)
               * (call.range.colEnd - call.range.colStart)
               * Len(presents[1].shapeVariations)
    /\ OccupiedCells(heap, call.grid) # {}

===========================================================================
